---- MODULE Spec2Model ----
(***************************************************************************)
(* Model of the GCCJIT code generator of the Havo compiler                 *)
(* (src/havo/src/gccjit.rs): the Codegen state, the type lowerer, the      *)
(* overload resolver, the statement lowerer and the top-level driver.      *)
(*                                                                         *)
(* Several specifications share the one Codegen state:                     *)
(*   SpecCall   signature pass of gen_toplevel, then one call lowered      *)
(*   SpecStruct struct declarations of pass 1 and type lowerings           *)
(*   SpecStmt   gen_stmt, one step per code fragment between recursive     *)
(*              calls, over the bodies of successive functions             *)
(*   SpecBody   globals pass and body pass (locals, main initializers),    *)
(*              run twice from a fresh Codegen                             *)
(*   SpecPass   the four loops of gen_toplevel over a given element list   *)
(*   SpecCast   stores and calls with implicit casts                       *)
(*   SpecSig    signature pass: overload installation and name mangling    *)
(*   SpecNode   passes 1 to 3 with a self-referential struct               *)
(*   SpecExpr   sizeof and integer binary operations                       *)
(*   SpecConst  functions marked constant                                  *)
(*   SpecArgs   argument lists of calls to ordinary and external functions *)
(*                                                                         *)
(* The constant evaluator (src/havo/src/optimize/const_eval.rs) runs       *)
(* before the code generator; its specifications use the evaluator's       *)
(* fields (known_vars, const_functions, functions, try_eval_normal):       *)
(*   SpecBinop    folding of integer + - * / over every pair of operands   *)
(*   SpecCallFold calls of a constant function folded at the call site     *)
(*   SpecFold     folding in the bodies of ordinary functions              *)
(***************************************************************************)
EXTENDS Integers, Sequences, FiniteSets, TLC

VARIABLES
    pc,                 \* position of the driver / of the compilation
    elems,              \* the element list handed to gen_toplevel (as chosen so far)
    structures,         \* Codegen.structures : struct name -> GccStruct
    aliases,            \* Codegen.aliases : name -> AST type
    ir_types,           \* native struct/union types the gccjit context constructed, in order
    functions,          \* Codegen.functions : name -> Seq(FunctionUnit)
    external_functions, \* Codegen.external_functions : name -> FunctionUnit
    const_functions,    \* Codegen.const_functions : name -> Seq(Function)
    fun_id,             \* Codegen.fun_id
    ir_funcs,           \* IR functions the gccjit context created, in order
    variables,          \* Codegen.variables : name -> VarInfo
    callsite,           \* the call expression being lowered (<<>> when none)
    outcome,            \* what gen_expr(Call) produced for callsite (<<>> when none)
    lowered,            \* the type lowerings and lookups made after pass 1, with their results
    globals,            \* Codegen.globals : name -> (VarInfo, initializer)
    blocks,             \* the IR blocks the gccjit context holds, by handle
    cur_func,           \* Codegen.cur_func (0 when None)
    cur_block,          \* Codegen.cur_block (0 when None)
    block_id,           \* Codegen.block_id
    break_blocks,       \* Codegen.break_blocks
    continue_blocks,    \* Codegen.continue_blocks
    terminated,         \* Codegen.terminated
    tasks,              \* the pending work of gen_stmt: the call stack of the lowering
    src,                \* the statements of the input read so far, in prefix form
    nodes,              \* how many statements of the input were read
    ei,                 \* body pass: the position in elems
    run,                \* which run of the compiler this is
    prev,               \* the input and the IR of the run before (<<>> in the first run)
    constants,          \* Codegen.constants : name -> constant expression
    links,              \* the -l driver options the gccjit context was given, in order
    known_vars,         \* ConstEval.known_vars : name -> Const
    replaced,           \* the calls Function::replace_expr_to(id, literal) made, in order
    try_eval_normal     \* ConstEval.try_eval_normal

vars == <<pc, elems, structures, aliases, ir_types, functions, external_functions,
          const_functions, fun_id, ir_funcs, variables, callsite, outcome, lowered,
          globals, blocks, cur_func, cur_block, block_id, break_blocks, continue_blocks,
          terminated, tasks, src, nodes, ei, run, prev, constants, links,
          known_vars, replaced, try_eval_normal>>

(* the parts of the state, by the component that owns them *)
typeVars == <<structures, aliases, ir_types>>
funcVars == <<functions, external_functions, const_functions, fun_id, ir_funcs>>
callVars == <<callsite, outcome>>
lowerVars == <<lowered>>
stmtVars == <<blocks, cur_func, cur_block, block_id, break_blocks, continue_blocks,
              terminated, tasks, src, nodes>>
evalVars == <<known_vars, replaced, try_eval_normal>>
bodyVars == <<globals, ei, run, prev, constants, links, evalVars>>

----------------------------------------------------------------------------
(* Bounds of the model *)

MaxElems == 2
MaxParams == 1
MaxArgs == 2
MaxStructElems == 3
MaxLowerings == 2
MaxStmts == 3
MaxGlobals == 2
MaxFile == 3

----------------------------------------------------------------------------
(* Generic helpers *)

None == <<>>
Some(x) == <<x>>
IsSome(o) == Len(o) = 1
IsNone(o) == Len(o) = 0
Unwrap(o) == o[1]

SeqsUpTo(S, n) == UNION { [1..k -> S] : k \in 0..n }

EmptyMap == [x \in {} |-> 0]
MapPut(m, key, v) == [x \in (DOMAIN m) \cup {key} |-> IF x = key THEN v ELSE m[x]]

----------------------------------------------------------------------------
(* AST types (syntax::ast::Type).  One record shape for every variant:     *)
(* k is the variant, n the name (Basic, Struct), sub the component types   *)
(* (the pointee of Ptr, the fields of Struct).                             *)

Basic(n) == [k |-> "Basic", n |-> n, sub |-> <<>>]
Ptr(t) == [k |-> "Ptr", n |-> "", sub |-> <<t>>]
StructTy(n, fields) == [k |-> "Struct", n |-> n, sub |-> fields]
(* Array(T, len?): len is None for an array without a length *)
ArrayTy(t, len) == [k |-> "Array", n |-> "", sub |-> <<t>>, len |-> len]

is_ptr(t) == t.k = "Ptr"
is_struct(t) == t.k = "Struct"
is_array(t) == t.k = "Array"
make_ptr(t) == Ptr(t)

PrimNames == {"u8", "i8", "char", "i16", "u16", "i32", "u32", "i64", "u64",
              "f32", "f64", "bool", "usize"}

(* IR types (gccjit CType).  id distinguishes the instances of a native    *)
(* struct type: it is the position of the construction in ir_types.        *)
CPrim(n) == [k |-> "prim", n |-> n, id |-> 0, sub |-> <<>>]
CStruct(n, id) == [k |-> "struct", n |-> n, id |-> id, sub |-> <<>>]
CPointer(c) == [k |-> "ptr", n |-> "", id |-> 0, sub |-> <<c>>]
CBad == [k |-> "bad", n |-> "", id |-> 0, sub |-> <<>>]
(* Context::new_array_type(elem, len): id holds the length *)
CArray(c, len) == [k |-> "array", n |-> "", id |-> len, sub |-> <<c>>]

----------------------------------------------------------------------------
(* Codegen::ty_to_ctype.  The lowering reads and extends the struct        *)
(* registry, so it maps a lowering state                                   *)
(*   [structures, aliases, ir_types, panic]                                *)
(* and a type to the IR type and the lowering state after the call.        *)

LowState(s, a, t) == [structures |-> s, aliases |-> a, ir_types |-> t, panic |-> FALSE]

RECURSIVE ty_to_ctype(_, _)
RECURSIVE LowerFields(_, _, _)

(* the loop over struct_.fields of the Struct arm: lowers field i.. in     *)
(* declaration order, threading the registry through                       *)
LowerFields(st, fields, i) ==
    IF i > Len(fields) \/ st.panic THEN st
    ELSE LowerFields(ty_to_ctype(st, fields[i]).st, fields, i + 1)

ty_to_ctype(st, ty) ==
    IF st.panic THEN [st |-> st, cty |-> CBad]
    ELSE IF ty.k = "Void" THEN [st |-> st, cty |-> CPrim("void")]
    ELSE IF ty.k = "Basic" THEN
        IF ty.n \in PrimNames THEN [st |-> st, cty |-> CPrim(ty.n)]
        ELSE IF ty.n \in DOMAIN st.structures
            THEN [st |-> st, cty |-> st.structures[ty.n].ty]
        ELSE IF ty.n \in DOMAIN st.aliases
            THEN ty_to_ctype(st, st.aliases[ty.n])
        ELSE [st |-> [st EXCEPT !.panic = TRUE], cty |-> CBad]
    ELSE IF ty.k = "Ptr" THEN
        LET r == ty_to_ctype(st, ty.sub[1])
        IN  [st |-> r.st, cty |-> IF r.st.panic THEN CBad ELSE CPointer(r.cty)]
    ELSE IF ty.k = "Struct" THEN
        IF ty.n \in DOMAIN st.structures
            THEN [st |-> st, cty |-> st.structures[ty.n].ty]
        ELSE
            LET s1 == LowerFields(st, ty.sub, 1)
                nt == CStruct(ty.n, Len(s1.ir_types) + 1)
            IN  IF s1.panic THEN [st |-> s1, cty |-> CBad]
                ELSE [st |-> [s1 EXCEPT
                                !.ir_types = Append(@, ty.n),
                                !.structures = MapPut(@, ty.n, [ty |-> nt, types |-> ty.sub])],
                      cty |-> nt]
    ELSE IF ty.k = "Array" THEN
        LET r == ty_to_ctype(st, ty.sub[1])
        IN  [st |-> r.st,
             cty |-> IF r.st.panic THEN CBad
                     ELSE IF ty.len # <<>> THEN CArray(r.cty, ty.len[1])
                     ELSE CPointer(r.cty)]
    ELSE [st |-> [st EXCEPT !.panic = TRUE], cty |-> CBad]

----------------------------------------------------------------------------
(* AST functions (syntax::ast::Function), function units, IR values *)

Param(n, t) == [name |-> n, ty |-> t]

Func(name, params, this, variadic, ret, external) ==
    [name |-> name, params |-> params, this |-> this, variadic |-> variadic,
     ret |-> ret, external |-> external, internal |-> FALSE, ir_temp_id |-> 0,
     kind |-> "Func"]

(* an expression as the lowerer sees it: its kind, its name or label, and  *)
(* the type the semantic checker recorded for its node id (get_id_type)    *)
Expr(k, n, ty) == [k |-> k, n |-> n, ty |-> ty]
get_id_type(e) == e.ty

(* IR rvalues: op, a label, the target type of a cast, the operands *)
RVal(e) == [op |-> "val", n |-> e.n, cty |-> <<>>, sub |-> <<>>]
new_cast(v, cty) == [op |-> "cast", n |-> "", cty |-> <<cty>>, sub |-> <<v>>]
get_address(v) == [op |-> "addr", n |-> "", cty |-> <<>>, sub |-> <<v>>]

CurLow == LowState(structures, aliases, ir_types)

----------------------------------------------------------------------------
(* Codegen::search_for_func *)

RECURSIVE ArgLoop(_, _, _, _)
(* the loop `for (index, param) in params.iter().enumerate()`; index is    *)
(* 1-based here.  Yields the flags params_okay and not_found at loop exit. *)
ArgLoop(params, f, index, params_okay) ==
    IF index > Len(params)
        THEN [params_okay |-> params_okay, not_found |-> FALSE]
    ELSE IF index <= Len(f.params) THEN
        IF params[index] = f.params[index].ty
            THEN ArgLoop(params, f, index + 1, TRUE)
            ELSE [params_okay |-> FALSE, not_found |-> TRUE]
    ELSE IF f.variadic /\ params_okay
        THEN [params_okay |-> TRUE, not_found |-> FALSE]
        ELSE [params_okay |-> FALSE, not_found |-> TRUE]

SigParams(f) == [i \in 1..Len(f.params) |-> f.params[i].ty]

(* the tuple search_for_func returns for a selected unit.  Every parameter *)
(* type of a registered unit was lowered by the signature pass, so         *)
(* lowering it again leaves the registry as it is.                         *)
Selected(st, function) ==
    [c |-> function.c,
     c_types |-> [i \in 1..Len(function.f.params) |->
                    ty_to_ctype(st, function.f.params[i].ty).cty],
     ast_types |-> SigParams(function.f)]

RECURSIVE SearchFrom(_, _, _, _, _)
SearchFrom(st, params, this, fns, k) ==
    IF k > Len(fns) THEN None
    ELSE
        LET function == fns[k]
            f == function.f
            next == SearchFrom(st, params, this, fns, k + 1)
            thisp == IF is_ptr(Unwrap(this)) THEN Unwrap(this) ELSE make_ptr(Unwrap(this))
            r == ArgLoop(params, f, 1, FALSE)
        IN  IF Len(f.params) > Len(params) THEN next
            ELSE IF Len(f.params) = 0 /\ Len(params) = 0
                    /\ IsNone(function.this_ast) /\ IsNone(this)
                THEN Some([c |-> function.c, c_types |-> <<>>, ast_types |-> <<>>])
            ELSE IF IsSome(function.this_ast) /\ IsNone(this) THEN next
            ELSE IF IsSome(function.this_ast) /\ Unwrap(function.this_ast) # thisp THEN next
            ELSE IF IsSome(function.this_ast) /\ SigParams(f) = params
                THEN Some(Selected(st, function))
            ELSE IF r.not_found THEN next
            ELSE IF r.params_okay THEN Some(Selected(st, function))
            ELSE next

search_for_func(st, params, this, fns) == SearchFrom(st, params, this, fns, 1)

----------------------------------------------------------------------------
(* gen_toplevel, pass 2: the signature of one Elem::Func *)

RECURSIVE ty_to_n(_)
(* the name mangling of a type (fn ty_to_n inside gen_toplevel) *)
ty_to_n(ty) ==
    IF ty.k = "Basic" THEN ty.n
    ELSE IF ty.k = "Ptr" THEN "ptr" \o ty_to_n(ty.sub[1])
    ELSE IF ty.k = "Struct" THEN ty.n
    ELSE IF ty.k = "Void" THEN "v"
    ELSE IF ty.k = "Array" THEN "ptr" \o ty_to_n(ty.sub[1])
    ELSE "?"

RECURSIVE MangleParams(_, _)
MangleParams(params, i) ==
    IF i > Len(params) THEN "" ELSE ty_to_n(params[i].ty) \o MangleParams(params, i + 1)

(* the IR name of an ordinary function *)
IrName(func) ==
    IF func.name = "main" THEN "main"
    ELSE func.name
            \o (IF IsSome(func.this) THEN "this" \o ty_to_n(Unwrap(func.this).ty) ELSE "")
            \o MangleParams(func.params, 1)

(* every type the signature of func lowers, in the order the code lowers them *)
SigTypes(func) ==
    SigParams(func)
        \o (IF IsSome(func.this) /\ ~func.external THEN <<Unwrap(func.this).ty>> ELSE <<>>)
        \o (IF func.internal THEN <<>> ELSE <<func.ret>>)

(* `fun.f.name == func.name && fun.f.params == func.params && ...` *)
SameSignature(u, func) ==
    /\ u.f.name = func.name
    /\ u.f.params = func.params
    /\ u.f.ret = func.ret
    /\ u.f.variadic = func.variadic
    /\ u.f.this = func.this

(* installation of a unit in Codegen.functions: the unit with the same     *)
(* signature is overwritten (and fun_id bumped once more), else the unit   *)
(* is pushed at the end of the list of its name                            *)
InstallUnit(fns, id, unit) ==
    LET name == unit.f.name
    IN  IF name \in DOMAIN fns THEN
            LET list == fns[name]
                hits == {i \in 1..Len(list) : SameSignature(list[i], unit.f)}
                first == CHOOSE i \in hits : \A j \in hits : i <= j
            IN  IF hits # {}
                    THEN [functions |-> [fns EXCEPT ![name] = [list EXCEPT ![first] = unit]],
                          fun_id |-> id + 2]
                    ELSE [functions |-> [fns EXCEPT ![name] = Append(list, unit)],
                          fun_id |-> id + 1]
        ELSE [functions |-> MapPut(fns, name, <<unit>>), fun_id |-> id + 1]

(* the parameters of the IR function: the declared ones, then the receiver *)
IrParams(st, func) ==
    [i \in 1..Len(func.params) |-> ty_to_ctype(st, func.params[i].ty).cty]
        \o (IF IsSome(func.this) /\ ~func.external /\ ~func.internal
                THEN <<ty_to_ctype(st, Unwrap(func.this).ty).cty>> ELSE <<>>)

(* in a second run the element list is the one of the first run: the next  *)
(* element read is e (the signature pass had stored ir_temp_id in its copy)*)
ReplaysElem(e) ==
    IF IsNone(prev) THEN TRUE
    ELSE IF Len(elems) >= Len(prev[1].elems) THEN FALSE
    ELSE e = IF prev[1].elems[Len(elems) + 1].kind = "Func"
                THEN [prev[1].elems[Len(elems) + 1] EXCEPT !.ir_temp_id = 0]
                ELSE prev[1].elems[Len(elems) + 1]
(* no element of this kind is left to read *)
NoMoreElems(kind) ==
    IF IsNone(prev) THEN TRUE
    ELSE IF Len(elems) = Len(prev[1].elems) THEN TRUE
    ELSE prev[1].elems[Len(elems) + 1].kind # kind

DeclareFunc(func) ==
    LET st == LowerFields(CurLow, SigTypes(func), 1)
        c == Len(ir_funcs) + 1
        irf(name) == [name |-> name, params |-> IrParams(st, func),
                      variadic |-> func.variadic,
                      ret |-> ty_to_ctype(st, func.ret).cty]
    IN  /\ pc = "sig"
        /\ Len(elems) < MaxElems
        /\ ReplaysElem(func)
        /\ structures' = st.structures
        /\ ir_types' = st.ir_types
        /\ IF st.panic THEN
                /\ pc' = "panic"
                /\ UNCHANGED <<elems, functions, external_functions, fun_id, ir_funcs>>
           ELSE IF func.external \/ func.internal THEN
                /\ pc' = pc
                /\ elems' = Append(elems, func)
                /\ ir_funcs' = Append(ir_funcs, irf(func.name))
                /\ external_functions' =
                        MapPut(external_functions, func.name,
                               [f |-> func, c |-> c, this_ast |-> None, this_ir |-> None,
                                irname |-> func.name])
                /\ UNCHANGED <<functions, fun_id>>
           ELSE
                LET f2 == [func EXCEPT !.ir_temp_id = fun_id]
                    unit == [f |-> f2, c |-> c,
                             this_ast |-> IF IsSome(func.this)
                                            THEN Some(Unwrap(func.this).ty) ELSE None,
                             this_ir |-> IF IsSome(func.this)
                                            THEN Some(ty_to_ctype(st, Unwrap(func.this).ty).cty)
                                            ELSE None,
                             irname |-> IrName(func)]
                    r == InstallUnit(functions, fun_id, unit)
                IN  /\ pc' = pc
                    /\ elems' = Append(elems, f2)
                    /\ ir_funcs' = Append(ir_funcs, irf(IrName(func)))
                    /\ functions' = r.functions
                    /\ fun_id' = r.fun_id
                    /\ UNCHANGED external_functions
        /\ UNCHANGED <<aliases, const_functions, variables, callsite, outcome>>
        /\ UNCHANGED <<lowerVars, stmtVars, bodyVars>>

----------------------------------------------------------------------------
(* gen_expr, ExprKind::Call(name, this, args) *)

Call(name, this, args) == [name |-> name, this |-> this, args |-> args]

(* what lowering a call yields: the IR call built (kind, callee, arguments)*)
(* or the way the compilation ended                                        *)
Outcome(kind, fn, args) == [kind |-> kind, fn |-> fn, args |-> args]

(* CallArgs without the test `!ty.is_struct() && !ty.is_array()` *)
CallArgsCastAll(sel, args) ==
    [i \in 1..Len(args) |->
        IF i <= Len(sel.ast_types)
            THEN new_cast(RVal(args[i]), sel.c_types[i])
            ELSE RVal(args[i])]

(* the argument list of a call to a selected ordinary function *)
CallArgs(sel, args) ==
    [i \in 1..Len(args) |->
        IF i <= Len(sel.ast_types)
            THEN IF ~is_struct(sel.ast_types[i]) /\ ~is_array(sel.ast_types[i])
                    THEN new_cast(RVal(args[i]), sel.c_types[i])
                    ELSE RVal(args[i])
            ELSE RVal(args[i])]

(* the receiver argument pushed after the arguments *)
ReceiverArg(st, e) ==
    IF ~is_ptr(get_id_type(e))
        THEN new_cast(get_address(RVal(e)), CPointer(ty_to_ctype(st, get_id_type(e)).cty))
        ELSE RVal(e)

(* the argument list of a call to an external function *)
ExternArgs(st, unit, args) ==
    [i \in 1..Len(args) |->
        IF i <= Len(unit.f.params)
            THEN IF ~is_struct(unit.f.params[i].ty) /\ ~is_array(unit.f.params[i].ty)
                    THEN new_cast(RVal(args[i]), ty_to_ctype(st, unit.f.params[i].ty).cty)
                    ELSE RVal(args[i])
            ELSE RVal(args[i])]

(* the branch taken when the name is in Codegen.functions *)
OrdinaryCall(st, call) ==
    LET param_types == [i \in 1..Len(call.args) |-> get_id_type(call.args[i])]
        ty == IF IsSome(call.this) THEN Some(get_id_type(Unwrap(call.this))) ELSE None
        val == search_for_func(st, param_types, ty, functions[call.name])
    IN  IF IsNone(val) THEN Outcome("exit", 0, <<>>)
        ELSE Outcome("call", Unwrap(val).c,
                     CallArgs(Unwrap(val), call.args)
                        \o (IF IsSome(call.this)
                                THEN <<ReceiverArg(st, Unwrap(call.this))>> ELSE <<>>))

(* the branches taken when the name is not in Codegen.functions *)
OtherCall(st, call) ==
    IF call.name \in DOMAIN const_functions THEN Outcome("const0", 0, <<>>)
    ELSE IF call.name \in DOMAIN external_functions THEN
        Outcome("extcall", external_functions[call.name].c,
                ExternArgs(st, external_functions[call.name], call.args))
    ELSE IF call.name \in DOMAIN variables THEN
        Outcome("ptrcall", 0, [i \in 1..Len(call.args) |-> RVal(call.args[i])])
    ELSE Outcome("panic", 0, <<>>)

CallOutcome(st, call) ==
    IF call.name \in DOMAIN functions THEN OrdinaryCall(st, call) ELSE OtherCall(st, call)

GenCall(call) ==
    /\ pc = "body"
    /\ callsite' = Some(call)
    /\ outcome' = Some(CallOutcome(CurLow, call))
    /\ pc' = IF outcome'[1].kind \in {"exit", "panic"} THEN outcome'[1].kind ELSE "called"
    /\ UNCHANGED <<elems, variables, typeVars, funcVars, lowerVars, stmtVars, bodyVars>>

(* the signature pass is over; the body that holds the call is lowered *)
EndSigPass ==
    /\ pc = "sig"
    /\ pc' = "body"
    /\ UNCHANGED <<elems, variables, typeVars, funcVars, callVars, lowerVars, stmtVars, bodyVars>>

(* gen_stmt, StmtKind::Var without initializer: a local of a function      *)
(* pointer type is declared in the body before the call                    *)
GenVarDecl(name, ty) ==
    /\ pc = "body"
    /\ name \notin DOMAIN variables
    /\ variables' = MapPut(variables, name,
                           [lval |-> [k |-> "local", fn |-> 0, n |-> name], ty |-> ty,
                            cty |-> CPrim("fnptr")])
    /\ UNCHANGED <<pc, elems, typeVars, funcVars, callVars, lowerVars, stmtVars, bodyVars>>

----------------------------------------------------------------------------
(* SpecCall: inputs *)

I32 == Basic("i32")
I64 == Basic("i64")
ArgTys == {I32, I64}
RecvDeclTys == {Ptr(Basic("P")), Ptr(Basic("Q"))}
RecvCallTys == {Basic("P"), Ptr(Basic("P")), Basic("Q")}
ParamNames == <<"a", "b", "c", "d">>
FnPtrTy == [k |-> "Func", n |-> "", sub |-> <<>>]

DeclParams == { [i \in 1..Len(ts) |-> Param(ParamNames[i], ts[i])] : ts \in SeqsUpTo(ArgTys, MaxParams) }

FuncElems ==
    { Func("f", ps, th, v, I32, FALSE) :
        ps \in DeclParams,
        th \in {None} \cup { Some(Param("self", t)) : t \in RecvDeclTys },
        v \in BOOLEAN }
    \cup { Func("f", ps, None, v, I32, TRUE) : ps \in DeclParams, v \in BOOLEAN }

Calls ==
    { Call("f", th, [i \in 1..Len(ts) |-> Expr("Int", ParamNames[i], ts[i])]) :
        ts \in SeqsUpTo(ArgTys, MaxArgs),
        th \in {None} \cup { Some(Expr("Ident", "p", t)) : t \in RecvCallTys } }

(* pass 1 has registered the structs P and Q the receivers point to *)
RegPQ ==
    LET s1 == ty_to_ctype(LowState(EmptyMap, EmptyMap, <<>>), StructTy("P", <<I32>>)).st
    IN  ty_to_ctype(s1, StructTy("Q", <<I32>>)).st

InitCall ==
    /\ pc = "sig"
    /\ elems = <<>>
    /\ structures = RegPQ.structures
    /\ aliases = EmptyMap
    /\ ir_types = RegPQ.ir_types
    /\ functions = EmptyMap
    /\ external_functions = EmptyMap
    /\ const_functions = EmptyMap
    /\ fun_id = 0
    /\ ir_funcs = <<>>
    /\ variables = EmptyMap
    /\ callsite = None
    /\ outcome = None
    /\ lowered = <<>>
    /\ globals = EmptyMap
    /\ blocks = <<>>
    /\ cur_func = 0
    /\ cur_block = 0
    /\ block_id = 0
    /\ break_blocks = <<>>
    /\ continue_blocks = <<>>
    /\ terminated = <<>>
    /\ tasks = <<>>
    /\ src = <<>>
    /\ nodes = 0
    /\ ei = 1
    /\ run = 1
    /\ prev = <<>>
    /\ constants = EmptyMap
    /\ links = <<>>
    /\ known_vars = EmptyMap
    /\ replaced = <<>>
    /\ try_eval_normal = FALSE

NextCall ==
    \/ \E func \in FuncElems : DeclareFunc(func)
    \/ EndSigPass
    \/ GenVarDecl("f", FnPtrTy)
    \/ \E call \in Calls : GenCall(call)

SpecCall == InitCall /\ [][NextCall]_vars

----------------------------------------------------------------------------
(* Properties of overload resolution and call lowering (SpecCall) *)

CallLowered == IsSome(callsite) /\ IsSome(outcome)
TheCall == Unwrap(callsite)
TheOutcome == Unwrap(outcome)
CallArgTys == [i \in 1..Len(TheCall.args) |-> get_id_type(TheCall.args[i])]
Candidates == functions[TheCall.name]
(* the receiver type a candidate must declare for a call on a receiver of type r *)
ReceiverAs(r) == IF is_ptr(r) THEN r ELSE Ptr(r)
(* the unit whose IR function the emitted call calls *)
CalledUnits == { i \in 1..Len(Candidates) : Candidates[i].c = TheOutcome.fn }

(* a candidate matches a call: section 4.6, steps 1 to 3 *)
Matches(u, P, R) ==
    /\ Len(u.f.params) <= Len(P)
    /\ IF IsNone(R) THEN IsNone(u.this_ast)
       ELSE IsSome(u.this_ast) /\ Unwrap(u.this_ast) = ReceiverAs(get_id_type(Unwrap(R)))
    /\ \A i \in 1..Len(u.f.params) : P[i] = u.f.params[i].ty
    /\ (Len(P) = Len(u.f.params) \/ u.f.variadic)
Matching == { i \in 1..Len(Candidates) : Matches(Candidates[i], CallArgTys, TheCall.this) }

(* C1: a call that carries a receiver of type R is only ever resolved to a *)
(* candidate that declares a receiver, of type R when R is a pointer and   *)
(* Ptr(R) otherwise; a candidate without a receiver is never selected.     *)
C1_ReceiverCallSelectsReceiverCandidate ==
    (CallLowered /\ TheOutcome.kind = "call" /\ IsSome(TheCall.this)) =>
        \A i \in CalledUnits :
            /\ IsSome(Candidates[i].this_ast)
            /\ Unwrap(Candidates[i].this_ast) = ReceiverAs(get_id_type(Unwrap(TheCall.this)))

(* C2: when exactly one candidate of the overload list matches the call,   *)
(* search_for_func returns that candidate (the call emitted calls it).     *)
C2_UniqueMatchIsSelected ==
    (CallLowered /\ TheCall.name \in DOMAIN functions /\ Cardinality(Matching) = 1) =>
        /\ TheOutcome.kind = "call"
        /\ CalledUnits = Matching

(* C3: when the call names an ordinary function and no candidate matches   *)
(* the argument types and the receiver, the compilation exits with the     *)
(* fatal error and no call is emitted, whatever the external table and the *)
(* locals hold.                                                            *)
C3_NoMatchIsFatal ==
    (CallLowered /\ TheCall.name \in DOMAIN functions /\ Matching = {}) =>
        /\ pc = "exit"
        /\ TheOutcome.kind = "exit"
        /\ TheOutcome.fn = 0 /\ TheOutcome.args = <<>>

----------------------------------------------------------------------------
(* gen_toplevel, pass 1 (Elem::Struct, Elem::Alias), and the lowerings and *)
(* lookups of struct types made by the later passes                        *)

StructElem(name, fields) == [kind |-> "Struct", name |-> name, fields |-> fields]
AliasElem(name, ty) == [kind |-> "Alias", name |-> name, fields |-> <<ty>>]

(* Elem::Struct: the fields are lowered, the native type is constructed,   *)
(* and it is registered unless the name is registered already.  The        *)
(* element list declares a name once.                                      *)
DeclareStruct(s) ==
    LET st == LowerFields(CurLow, s.fields, 1)
        struct_ == CStruct(s.name, Len(st.ir_types) + 1)
    IN  /\ pc = "types"
        /\ Len(elems) < MaxStructElems
        /\ \A i \in 1..Len(elems) : elems[i].name # s.name
        /\ aliases' = aliases
        /\ IF st.panic THEN
                /\ pc' = "panic"
                /\ structures' = st.structures
                /\ ir_types' = st.ir_types
                /\ elems' = elems
           ELSE
                /\ pc' = pc
                /\ ir_types' = Append(st.ir_types, s.name)
                /\ structures' = IF s.name \notin DOMAIN st.structures
                                    THEN MapPut(st.structures, s.name,
                                                [ty |-> struct_, types |-> s.fields])
                                    ELSE st.structures
                /\ elems' = Append(elems, s)
        /\ UNCHANGED <<variables, funcVars, callVars, lowerVars, stmtVars, bodyVars>>

(* Elem::Alias *)
DeclareAlias(a) ==
    /\ pc = "types"
    /\ Len(elems) < MaxStructElems
    /\ \A i \in 1..Len(elems) : elems[i].name # a.name
    /\ aliases' = MapPut(aliases, a.name, a.fields[1])
    /\ elems' = Append(elems, a)
    /\ UNCHANGED <<pc, structures, ir_types, variables, funcVars, callVars, lowerVars, stmtVars, bodyVars>>

EndTypePass ==
    /\ pc = "types"
    /\ pc' = "lower"
    /\ UNCHANGED <<elems, variables, typeVars, funcVars, callVars, lowerVars, stmtVars, bodyVars>>

RECURSIVE find_struct(_, _, _)
(* Codegen::find_struct *)
find_struct(structs, als, ty) ==
    IF ty.k \in {"Basic", "Struct"} THEN
        IF ty.n \in DOMAIN structs THEN Some(structs[ty.n])
        ELSE IF ty.n \in DOMAIN als THEN find_struct(structs, als, als[ty.n])
        ELSE None
    ELSE None

(* a later pass lowers a type *)
LowerType(ty) ==
    LET r == ty_to_ctype(CurLow, ty)
    IN  /\ pc = "lower"
        /\ Len(lowered) < MaxLowerings
        /\ structures' = r.st.structures
        /\ ir_types' = r.st.ir_types
        /\ pc' = IF r.st.panic THEN "panic" ELSE pc
        /\ lowered' = Append(lowered, [op |-> "ty_to_ctype", ty |-> ty,
                                       res |-> IF r.st.panic THEN None ELSE Some(r.cty)])
        /\ UNCHANGED <<elems, aliases, variables, funcVars, callVars, stmtVars, bodyVars>>

(* a later pass looks a struct up (field access, struct literal) *)
FindStruct(ty) ==
    LET r == find_struct(structures, aliases, ty)
    IN  /\ pc = "lower"
        /\ Len(lowered) < MaxLowerings
        /\ lowered' = Append(lowered, [op |-> "find_struct", ty |-> ty,
                                       res |-> IF IsSome(r) THEN Some(Unwrap(r).ty) ELSE None])
        /\ UNCHANGED <<pc, elems, variables, typeVars, funcVars, callVars, stmtVars, bodyVars>>

(* SpecStruct: inputs.  struct B { x: i32 };                               *)
(* struct A { b: B; pb: *B } with b resolved to the struct type;           *)
(* alias T = A                                                             *)
TyB == StructTy("B", <<I32>>)
TyA == StructTy("A", <<TyB, Ptr(Basic("B"))>>)
StructElems == {StructElem("B", TyB.sub), StructElem("A", TyA.sub)}
AliasElems == {AliasElem("T", Basic("A"))}
LowerTys == {TyA, TyB, Basic("A"), Basic("B"), Basic("T"), Ptr(TyA), Ptr(Basic("T"))}

InitStruct ==
    /\ pc = "types"
    /\ elems = <<>>
    /\ structures = EmptyMap
    /\ aliases = EmptyMap
    /\ ir_types = <<>>
    /\ functions = EmptyMap
    /\ external_functions = EmptyMap
    /\ const_functions = EmptyMap
    /\ fun_id = 0
    /\ ir_funcs = <<>>
    /\ variables = EmptyMap
    /\ callsite = None
    /\ outcome = None
    /\ lowered = <<>>
    /\ globals = EmptyMap
    /\ blocks = <<>>
    /\ cur_func = 0
    /\ cur_block = 0
    /\ block_id = 0
    /\ break_blocks = <<>>
    /\ continue_blocks = <<>>
    /\ terminated = <<>>
    /\ tasks = <<>>
    /\ src = <<>>
    /\ nodes = 0
    /\ ei = 1
    /\ run = 1
    /\ prev = <<>>
    /\ constants = EmptyMap
    /\ links = <<>>
    /\ known_vars = EmptyMap
    /\ replaced = <<>>
    /\ try_eval_normal = FALSE

NextStruct ==
    \/ \E s \in StructElems : DeclareStruct(s)
    \/ \E a \in AliasElems : DeclareAlias(a)
    \/ EndTypePass
    \/ \E ty \in LowerTys : LowerType(ty)
    \/ \E ty \in LowerTys : FindStruct(ty)

SpecStruct == InitStruct /\ [][NextStruct]_vars

(* the constructions of the native type named n, as positions in ir_types *)
Constructions(n) == { i \in 1..Len(ir_types) : ir_types[i] = n }
(* the struct a type names, through pointers and aliases *)
RECURSIVE NamedStruct(_)
NamedStruct(ty) ==
    IF ty.k = "Ptr" THEN NamedStruct(ty.sub[1])
    ELSE IF ty.k = "Basic" /\ ty.n \in DOMAIN aliases /\ ty.n \notin DOMAIN structures
        THEN NamedStruct(aliases[ty.n])
    ELSE ty.n
RECURSIVE Pointee(_)
Pointee(c) == IF c.k = "ptr" THEN Pointee(c.sub[1]) ELSE c

(* C4: a native struct type is constructed exactly once per struct name,   *)
(* and every later lowering or lookup of the name (through Basic, Struct,  *)
(* Ptr, an alias chain) yields that single registered instance.            *)
C4_StructConstructedOnce ==
    /\ \A n \in DOMAIN structures :
        /\ Cardinality(Constructions(n)) = 1
        /\ structures[n].ty = CStruct(n, CHOOSE i \in Constructions(n) : TRUE)
    /\ \A n \in {"A", "B"} : n \notin DOMAIN structures => Constructions(n) = {}
    /\ \A i \in 1..Len(lowered) :
        IsSome(lowered[i].res) =>
            Pointee(Unwrap(lowered[i].res)) = structures[NamedStruct(lowered[i].ty)].ty


----------------------------------------------------------------------------
(* The IR the lowerer builds: blocks, statements, terminators *)

Last(q) == q[Len(q)]
Front(q) == SubSeq(q, 1, Len(q) - 1)
(* VecDeque::pop_back, Vec::pop: nothing happens on an empty stack *)
Pop(q) == IF q = <<>> THEN q ELSE Front(q)

LVal(k, fn, n) == [k |-> k, fn |-> fn, n |-> n]
NoLval == LVal("none", 0, "")
to_rvalue(lv) == [op |-> "load", n |-> lv.n, cty |-> <<>>, sub |-> <<lv>>]
get_param(i) == [op |-> "param", n |-> ToString(i), cty |-> <<>>, sub |-> <<>>]

Assign(dst, val) == [op |-> "assign", dst |-> dst, val |-> val, late |-> FALSE]
Eval(val) == [op |-> "eval", dst |-> NoLval, val |-> val, late |-> FALSE]

Jump(t) == [k |-> "jump", t1 |-> t, t2 |-> 0]
Cond(t, f) == [k |-> "cond", t1 |-> t, t2 |-> f]
Ret(withval) == [k |-> IF withval THEN "ret" ELSE "vret", t1 |-> 0, t2 |-> 0]

(* Function::new_block: the handle of the new block is its position *)
new_block(blks, fn, name) ==
    Append(blks, [fn |-> fn, name |-> name, stmts |-> <<>>, terms |-> <<>>])
(* Block::end_with_jump, end_with_conditional, end_with_return,            *)
(* end_with_void_return: every call is kept, in order                      *)
end_with(blks, b, term) == [blks EXCEPT ![b].terms = Append(@, term)]
(* Block::add_assignment, add_eval; late marks a statement added to a      *)
(* block that was ended before                                             *)
add_stmt(blks, b, st) ==
    [blks EXCEPT ![b].stmts = Append(@, [st EXCEPT !.late = (blks[b].terms # <<>>)])]

(* Codegen::block_name_new, for the value id of block_id *)
block_name_new(id) == "L" \o ToString(id)

(* Codegen::expr_to_lvalue, ExprKind::Ident: a local, else a global *)
expr_to_lvalue(e) ==
    IF e.k = "Ident" THEN
        IF e.n \in DOMAIN variables THEN Some(variables[e.n].lval)
        ELSE IF e.n \in DOMAIN globals THEN Some(globals[e.n].info.lval)
        ELSE None
    ELSE None

(* Codegen::gen_expr for literals and identifiers; None stands for the     *)
(* panic of unwrap().  A constant is replaced by its expression (the       *)
(* constant expressions of the inputs are literals).                       *)
RECURSIVE gen_expr(_)
gen_expr(e) ==
    IF e.k = "Ident"
        THEN IF e.n \in DOMAIN constants
                THEN IF IsSome(expr_to_lvalue(constants[e.n]))
                        THEN Some(to_rvalue(Unwrap(expr_to_lvalue(constants[e.n]))))
                        ELSE gen_expr(constants[e.n])
             ELSE IF IsSome(expr_to_lvalue(e)) THEN Some(to_rvalue(Unwrap(expr_to_lvalue(e))))
             ELSE None
        ELSE Some(RVal(e))

----------------------------------------------------------------------------
(* Codegen::gen_stmt.  The recursion of gen_stmt is the stack `tasks`: a   *)
(* frame "stmt" is a statement still to lower with init = true (a branch,  *)
(* a loop body, a function body), a frame "seq" the rest of the statement  *)
(* list of a Block, and the other frames are the code that follows a       *)
(* recursive call.  The statements are read from the input as they are     *)
(* reached.                                                                *)

Frame(op, b1, b2, b3, flag) == [op |-> op, b1 |-> b1, b2 |-> b2, b3 |-> b3, flag |-> flag]
StmtFrame == Frame("stmt", 0, 0, 0, FALSE)
SeqFrame == Frame("seq", 0, 0, 0, FALSE)

(* in run 2 the input is the one recorded in run 1 *)
Replays(tok) ==
    IF IsNone(prev) THEN TRUE
    ELSE IF Len(src) >= Len(prev[1].src) THEN FALSE
    ELSE prev[1].src[Len(src) + 1] = tok

(* the lowerer is at a statement of the input: gen_stmt(stmt, init) *)
Reading(tok) ==
    /\ pc = "stmt"
    /\ tasks # <<>>
    /\ Head(tasks).op \in {"stmt", "seq"}
    /\ nodes < MaxStmts
    /\ Replays(tok)
    /\ src' = Append(src, tok)
    /\ nodes' = nodes + 1
init == Head(tasks).op = "stmt"
(* what is left to do once this statement is lowered *)
Cont == IF Head(tasks).op = "seq" THEN tasks ELSE Tail(tasks)
TopIs(op) == pc = "stmt" /\ tasks # <<>> /\ Head(tasks).op = op

notStmt == <<elems, typeVars, funcVars, callVars, lowerVars, bodyVars>>

(* StmtKind::Expr *)
GenExprStmt(e) ==
    /\ Reading("Expr:" \o e.n)
    /\ IF IsSome(gen_expr(e))
        THEN /\ blocks' = add_stmt(blocks, cur_block, Eval(Unwrap(gen_expr(e))))
             /\ pc' = pc
        ELSE /\ blocks' = blocks
             /\ pc' = "panic"
    /\ tasks' = Cont
    /\ UNCHANGED <<cur_func, cur_block, block_id, break_blocks, continue_blocks, terminated,
                   variables>>
    /\ UNCHANGED notStmt

(* StmtKind::Block *)
GenBlock ==
    /\ pc = "stmt" /\ tasks # <<>> /\ Head(tasks).op \in {"stmt", "seq"}
    /\ Replays("{")
    /\ src' = Append(src, "{")
    /\ IF ~init THEN
            /\ nodes < MaxStmts
            /\ nodes' = nodes + 1
            /\ blocks' = new_block(blocks, cur_func, block_name_new(block_id))
            /\ block_id' = block_id + 1
            /\ cur_block' = Len(blocks) + 1
            /\ tasks' = <<SeqFrame, Frame("block_end", cur_block, 0, 0, FALSE)>> \o Cont
       ELSE
            /\ tasks' = <<SeqFrame>> \o Cont
            /\ UNCHANGED <<nodes, blocks, block_id, cur_block>>
    /\ UNCHANGED <<pc, cur_func, break_blocks, continue_blocks, terminated, variables>>
    /\ UNCHANGED notStmt

(* the statement list of a Block is exhausted *)
SeqEnd ==
    /\ TopIs("seq")
    /\ Replays("}")
    /\ src' = Append(src, "}")
    /\ tasks' = Tail(tasks)
    /\ UNCHANGED <<pc, nodes, blocks, cur_func, cur_block, block_id, break_blocks,
                   continue_blocks, terminated, variables>>
    /\ UNCHANGED notStmt

(* StmtKind::Block, init = false: `self.cur_block = old_block` *)
BlockEnd ==
    /\ TopIs("block_end")
    /\ cur_block' = Head(tasks).b1
    /\ tasks' = Tail(tasks)
    /\ UNCHANGED <<pc, src, nodes, blocks, cur_func, block_id, break_blocks, continue_blocks,
                   terminated, variables>>
    /\ UNCHANGED notStmt

(* StmtKind::Break *)
GenBreak ==
    /\ Reading("Break")
    /\ tasks' = Cont
    /\ IF break_blocks = <<>> THEN
            /\ pc' = "panic"
            /\ UNCHANGED <<blocks, cur_block, terminated>>
       ELSE
            /\ blocks' = end_with(blocks, cur_block, Jump(Last(break_blocks)))
            /\ cur_block' = Last(break_blocks)
            /\ IF terminated = <<>>
                THEN pc' = "panic" /\ terminated' = terminated
                ELSE pc' = pc /\ terminated' = [terminated EXCEPT ![Len(terminated)] = TRUE]
    /\ UNCHANGED <<cur_func, block_id, break_blocks, continue_blocks, variables>>
    /\ UNCHANGED notStmt

(* StmtKind::Continue *)
GenContinue ==
    /\ Reading("Continue")
    /\ tasks' = Cont
    /\ IF continue_blocks = <<>> THEN
            /\ pc' = "panic"
            /\ UNCHANGED <<blocks, cur_block, block_id>>
       ELSE
            LET b1 == new_block(blocks, cur_func, block_name_new(block_id))
            IN  /\ pc' = pc
                /\ block_id' = block_id + 1
                /\ blocks' = end_with(b1, cur_block, Jump(Last(continue_blocks)))
                /\ cur_block' = Len(b1)
    /\ UNCHANGED <<cur_func, break_blocks, continue_blocks, terminated, variables>>
    /\ UNCHANGED notStmt

(* StmtKind::Return *)
GenReturn(withval) ==
    /\ Reading(IF withval THEN "Return" ELSE "ReturnVoid")
    /\ tasks' = Cont
    /\ blocks' = end_with(blocks, cur_block, Ret(withval))
    /\ terminated' = IF terminated # <<>>
                        THEN [terminated EXCEPT ![Len(terminated)] = TRUE]
                        ELSE terminated
    /\ UNCHANGED <<pc, cur_func, cur_block, block_id, break_blocks, continue_blocks, variables>>
    /\ UNCHANGED notStmt

(* StmtKind::Var(name, _, _, init), ty the type recorded for the statement *)
GenVar(name, ty, ini) ==
    LET local == LVal("local", cur_func, name)
        rv == gen_expr(Unwrap(ini))
        cty == ty_to_ctype(CurLow, ty).cty
        ast_ty == get_id_type(Unwrap(ini))
        val == IF ~is_struct(ty) /\ ~is_array(ty)
                THEN new_cast(Unwrap(rv), ty_to_ctype(CurLow, ast_ty).cty)
                ELSE Unwrap(rv)
    IN  /\ Reading("Var:" \o name \o (IF IsSome(ini) THEN "=" \o Unwrap(ini).n ELSE ""))
        /\ tasks' = Cont
        /\ IF IsSome(ini) /\ IsNone(rv) THEN
                /\ pc' = "panic"
                /\ UNCHANGED <<blocks, variables>>
           ELSE
                /\ pc' = pc
                /\ blocks' = IF IsSome(ini) THEN add_stmt(blocks, cur_block, Assign(local, val))
                             ELSE blocks
                /\ variables' = MapPut(variables, name, [lval |-> local, ty |-> ty, cty |-> cty])
        /\ UNCHANGED <<cur_func, cur_block, block_id, break_blocks, continue_blocks, terminated>>
        /\ UNCHANGED notStmt

(* StmtKind::If, up to the lowering of the then branch *)
GenIf(els) ==
    LET bb_then == Len(blocks) + 1
        bb_else == Len(blocks) + 2
        bb_merge == IF els THEN Len(blocks) + 3 ELSE bb_else
        b1 == new_block(blocks, cur_func, "if_true:" \o block_name_new(block_id))
        b2 == new_block(b1, cur_func, "if_false:" \o block_name_new(block_id + 1))
        b3 == IF els THEN new_block(b2, cur_func, "after:" \o block_name_new(block_id + 2))
              ELSE b2
    IN  /\ Reading(IF els THEN "IfElse" ELSE "If")
        /\ block_id' = block_id + (IF els THEN 3 ELSE 2)
        /\ blocks' = end_with(b3, cur_block, Cond(bb_then, bb_else))
        /\ terminated' = Append(terminated, FALSE)
        /\ cur_block' = bb_then
        /\ tasks' = <<StmtFrame, Frame("if_mid", bb_else, bb_merge, 0, els)>> \o Cont
        /\ UNCHANGED <<pc, cur_func, break_blocks, continue_blocks, variables>>
        /\ UNCHANGED notStmt

(* IfMid without the test of `terminated`: the fall-through jump is added  *)
(* after every then branch                                                 *)
IfMidAlwaysJumps ==
    LET fr == Head(tasks)
    IN  /\ TopIs("if_mid")
        /\ blocks' = end_with(blocks, cur_block, Jump(fr.b2))
        /\ IF fr.flag THEN
                /\ terminated' = Append(Pop(terminated), FALSE)
                /\ cur_block' = fr.b1
                /\ tasks' = <<StmtFrame, Frame("if_end", 0, fr.b2, 0, FALSE)>> \o Tail(tasks)
           ELSE
                /\ terminated' = Pop(Append(Pop(terminated), FALSE))
                /\ cur_block' = fr.b2
                /\ tasks' = Tail(tasks)
        /\ UNCHANGED <<pc, src, nodes, cur_func, block_id, break_blocks, continue_blocks,
                       variables>>
        /\ UNCHANGED notStmt

(* StmtKind::If, after the then branch: the fall-through jump, and the     *)
(* else branch when there is one                                           *)
IfMid ==
    LET fr == Head(tasks)
    IN  /\ TopIs("if_mid")
        /\ blocks' = IF ~Last(terminated) THEN end_with(blocks, cur_block, Jump(fr.b2))
                     ELSE blocks
        /\ IF fr.flag THEN
                /\ terminated' = Append(Pop(terminated), FALSE)
                /\ cur_block' = fr.b1
                /\ tasks' = <<StmtFrame, Frame("if_end", 0, fr.b2, 0, FALSE)>> \o Tail(tasks)
           ELSE
                /\ terminated' = Pop(Append(Pop(terminated), FALSE))
                /\ cur_block' = fr.b2
                /\ tasks' = Tail(tasks)
        /\ UNCHANGED <<pc, src, nodes, cur_func, block_id, break_blocks, continue_blocks,
                       variables>>
        /\ UNCHANGED notStmt

(* StmtKind::If, after the else branch *)
IfEnd ==
    LET fr == Head(tasks)
    IN  /\ TopIs("if_end")
        /\ blocks' = IF ~Last(terminated) THEN end_with(blocks, cur_block, Jump(fr.b2))
                     ELSE blocks
        /\ terminated' = Pop(terminated)
        /\ cur_block' = fr.b2
        /\ tasks' = Tail(tasks)
        /\ UNCHANGED <<pc, src, nodes, cur_func, block_id, break_blocks, continue_blocks,
                       variables>>
        /\ UNCHANGED notStmt

(* StmtKind::CFor, up to the lowering of the init statement *)
GenCFor ==
    LET loop_cond == Len(blocks) + 1
        loop_body == Len(blocks) + 2
        after_loop == Len(blocks) + 3
        b1 == new_block(blocks, cur_func, "for_cond:" \o block_name_new(block_id))
        b2 == new_block(b1, cur_func, "for_loop_body:" \o block_name_new(block_id + 1))
        b3 == new_block(b2, cur_func, "after_for:" \o block_name_new(block_id + 2))
    IN  /\ Reading("CFor")
        /\ block_id' = block_id + 3
        /\ blocks' = b3
        /\ break_blocks' = Append(break_blocks, after_loop)
        /\ continue_blocks' = Append(continue_blocks, loop_cond)
        /\ tasks' = <<StmtFrame, Frame("cfor_mid", loop_cond, loop_body, after_loop, FALSE)>>
                        \o Cont
        /\ UNCHANGED <<pc, cur_func, cur_block, terminated, variables>>
        /\ UNCHANGED notStmt

(* StmtKind::CFor, after the init statement, up to the lowering of the body *)
CForMid ==
    LET fr == Head(tasks)
        b1 == end_with(blocks, cur_block, Jump(fr.b1))
    IN  /\ TopIs("cfor_mid")
        /\ blocks' = end_with(b1, fr.b1, Cond(fr.b2, fr.b3))
        /\ cur_block' = fr.b2
        /\ terminated' = Append(terminated, FALSE)
        /\ tasks' = <<StmtFrame, Frame("cfor_end", fr.b1, 0, fr.b3, fr.flag)>> \o Tail(tasks)
        /\ UNCHANGED <<pc, src, nodes, cur_func, block_id, break_blocks, continue_blocks,
                       variables>>
        /\ UNCHANGED notStmt

(* StmtKind::CFor, after the body: the step (a literal in the inputs, so   *)
(* gen_expr adds nothing to the block), the back edge, the pops            *)
CForEnd ==
    LET fr == Head(tasks)
    IN  /\ TopIs("cfor_end")
        /\ blocks' = end_with(blocks, cur_block, Jump(fr.b1))
        /\ continue_blocks' = Pop(continue_blocks)
        /\ break_blocks' = Pop(break_blocks)
        /\ cur_block' = fr.b3
        /\ terminated' = Pop(terminated)
        /\ tasks' = Tail(tasks)
        /\ UNCHANGED <<pc, src, nodes, cur_func, block_id, variables>>
        /\ UNCHANGED notStmt

(* StmtKind::While, up to the lowering of the body *)
GenWhile ==
    LET loop_cond == Len(blocks) + 1
        loop_body == Len(blocks) + 2
        after_loop == Len(blocks) + 3
        b1 == new_block(blocks, cur_func, block_name_new(block_id))
        b2 == new_block(b1, cur_func, block_name_new(block_id + 1))
        b3 == new_block(b2, cur_func, block_name_new(block_id + 2))
        b4 == end_with(b3, cur_block, Jump(loop_cond))
    IN  /\ Reading("While")
        /\ block_id' = block_id + 3
        /\ break_blocks' = Append(break_blocks, after_loop)
        /\ continue_blocks' = Append(continue_blocks, loop_cond)
        /\ terminated' = Append(terminated, FALSE)
        /\ blocks' = end_with(b4, loop_cond, Cond(loop_body, after_loop))
        /\ cur_block' = loop_body
        /\ tasks' = <<StmtFrame, Frame("while_end", loop_cond, 0, after_loop, FALSE)>> \o Cont
        /\ UNCHANGED <<pc, cur_func, variables>>
        /\ UNCHANGED notStmt

(* StmtKind::While, after the body *)
WhileEnd ==
    LET fr == Head(tasks)
    IN  /\ TopIs("while_end")
        /\ blocks' = end_with(blocks, cur_block, Jump(fr.b1))
        /\ continue_blocks' = Pop(continue_blocks)
        /\ break_blocks' = Pop(break_blocks)
        /\ cur_block' = fr.b3
        /\ tasks' = Tail(tasks)
        /\ UNCHANGED <<pc, src, nodes, cur_func, block_id, terminated, variables>>
        /\ UNCHANGED notStmt

(* StmtKind::Loop, up to the lowering of the body *)
GenLoop ==
    LET bb == Len(blocks) + 1
        after == Len(blocks) + 2
        b1 == new_block(blocks, cur_func, block_name_new(block_id))
        b2 == new_block(b1, cur_func, block_name_new(block_id + 1))
    IN  /\ Reading("Loop")
        /\ block_id' = block_id + 2
        /\ break_blocks' = Append(break_blocks, after)
        /\ continue_blocks' = Append(continue_blocks, bb)
        /\ blocks' = end_with(b2, cur_block, Jump(bb))
        /\ cur_block' = bb
        /\ tasks' = <<StmtFrame, Frame("loop_end", bb, 0, after, FALSE)>> \o Cont
        /\ UNCHANGED <<pc, cur_func, terminated, variables>>
        /\ UNCHANGED notStmt

(* StmtKind::Loop, after the body *)
LoopEnd ==
    LET fr == Head(tasks)
    IN  /\ TopIs("loop_end")
        /\ blocks' = end_with(blocks, cur_block, Jump(fr.b1))
        /\ cur_block' = fr.b3
        /\ tasks' = Tail(tasks)
        /\ UNCHANGED <<pc, src, nodes, cur_func, block_id, break_blocks, continue_blocks,
                       terminated, variables>>
        /\ UNCHANGED notStmt

----------------------------------------------------------------------------
(* gen_toplevel: the globals pass and the body pass.  The elements are     *)
(* chosen as the passes reach them; every pass looks at one kind of        *)
(* element only, so the functions of the list are chosen in the signature  *)
(* pass and the globals, in their declaration order, in the globals pass.  *)

Global(name, ty, expr) == [kind |-> "Global", name |-> name, ty |-> ty, expr |-> expr]
VarInfo(lval, cty, ty) == [lval |-> lval, ty |-> ty, cty |-> cty]

(* the orders in which a HashMap with the key set S can be iterated *)
IterOrders(S) ==
    { q \in [1..Cardinality(S) -> S] : \A i, j \in 1..Cardinality(S) : q[i] = q[j] => i = j }

(* the signature pass is over *)
BeginGlobalsPass ==
    /\ pc = "sig"
    /\ NoMoreElems("Func")
    /\ pc' = "globals"
    /\ UNCHANGED <<elems, variables, typeVars, funcVars, callVars, lowerVars, stmtVars, bodyVars>>

(* pass 3, Elem::Global *)
DeclareGlobal(g) ==
    LET r == ty_to_ctype(CurLow, g.ty)
        lval == LVal("global", 0, g.name)
    IN  /\ pc = "globals"
        /\ Cardinality({i \in 1..Len(elems) : elems[i].kind = "Global"}) < MaxGlobals
        /\ \A i \in 1..Len(elems) : elems[i].kind = "Global" => elems[i].name # g.name
        /\ ReplaysElem(g)
        /\ structures' = r.st.structures
        /\ ir_types' = r.st.ir_types
        /\ IF r.st.panic THEN
                /\ pc' = "panic"
                /\ UNCHANGED <<elems, globals>>
           ELSE
                /\ pc' = pc
                /\ elems' = Append(elems, g)
                /\ globals' = MapPut(globals, g.name,
                                     [info |-> VarInfo(lval, r.cty, g.ty), expr |-> g.expr])
        /\ UNCHANGED <<aliases, variables, ei, run, prev, constants, links, evalVars>>
        /\ UNCHANGED <<funcVars, callVars, lowerVars, stmtVars>>

(* the globals pass is over *)
BeginBodyPass ==
    /\ pc = "globals"
    /\ NoMoreElems("Global")
    /\ pc' = "bodies"
    /\ ei' = 1
    /\ UNCHANGED <<elems, variables, globals, run, prev, constants, links, evalVars>>
    /\ UNCHANGED <<typeVars, funcVars, callVars, lowerVars, stmtVars>>

(* the units of elems[ei] whose body the body pass lowers:                 *)
(* `fun.f.ir_temp_id == func.ir_temp_id`                                   *)
BodyUnits ==
    LET func == elems[ei]
    IN  IF func.kind # "Func" THEN {}
        ELSE IF func.external \/ func.internal THEN {}
        ELSE { u \in 1..Len(functions[func.name]) :
                    functions[func.name][u].f.ir_temp_id = func.ir_temp_id }

(* the initializer assignments of main, for the iteration order `order`    *)
(* of Codegen.globals; None when gen_expr panics                           *)
RECURSIVE GlobalInits(_, _, _, _)
GlobalInits(blks, block, order, i) ==
    IF i > Len(order) THEN Some(blks)
    ELSE LET g == globals[order[i]]
         IN  IF IsNone(g.expr) THEN GlobalInits(blks, block, order, i + 1)
             ELSE IF IsNone(gen_expr(Unwrap(g.expr))) THEN None
             ELSE GlobalInits(add_stmt(blks, block,
                                       Assign(g.info.lval, Unwrap(gen_expr(Unwrap(g.expr))))),
                              block, order, i + 1)

(* the copies of the parameters into fresh locals, from parameter i on *)
RECURSIVE ParamCopies(_, _, _, _, _)
ParamCopies(blks, block, c, params, i) ==
    IF i > Len(params) THEN blks
    ELSE ParamCopies(add_stmt(blks, block,
                              Assign(LVal("local", c, params[i].name),
                                     get_param(i - 1))),
                     block, c, params, i + 1)

RECURSIVE ParamLocals(_, _, _, _)
ParamLocals(vs, c, params, i) ==
    IF i > Len(params) THEN vs
    ELSE ParamLocals(MapPut(vs, params[i].name,
                            VarInfo(LVal("local", c, params[i].name),
                                    ty_to_ctype(CurLow, params[i].ty).cty, params[i].ty)),
                     c, params, i + 1)

(* body pass, Elem::Func, up to the call of gen_stmt on the body *)
BeginBody(u, order) ==
    LET func == elems[ei]
        fun == functions[func.name][u]
        block == Len(blocks) + 1
        b0 == new_block(blocks, fun.c, "entry")
        b1 == IF func.name = "main" THEN GlobalInits(b0, block, order, 1) ELSE Some(b0)
        b2 == ParamCopies(Unwrap(b1), block, fun.c, func.params, 1)
        v2 == ParamLocals(variables, fun.c, func.params, 1)
        this == Unwrap(func.this)
    IN  /\ pc = "bodies"
        /\ ei <= Len(elems)
        /\ u \in BodyUnits
        /\ order \in IterOrders(DOMAIN globals)
        /\ cur_func' = fun.c
        /\ cur_block' = block
        /\ IF IsNone(b1) THEN
                /\ pc' = "panic"
                /\ blocks' = b0
                /\ UNCHANGED <<variables, tasks>>
           ELSE
                /\ pc' = "stmt"
                /\ blocks' = IF IsSome(func.this)
                                THEN add_stmt(b2, block,
                                              Assign(LVal("local", fun.c, this.name),
                                                     get_param(Len(func.params))))
                                ELSE b2
                /\ variables' = IF IsSome(func.this)
                                    THEN MapPut(v2, this.name,
                                                VarInfo(LVal("local", fun.c, this.name),
                                                        ty_to_ctype(CurLow, this.ty).cty, this.ty))
                                    ELSE v2
                /\ tasks' = <<StmtFrame>>
        /\ UNCHANGED <<elems, block_id, break_blocks, continue_blocks, terminated, src, nodes>>
        /\ UNCHANGED <<typeVars, funcVars, callVars, lowerVars, bodyVars>>

(* body pass: an element that is no function with a body to lower *)
SkipElem ==
    /\ pc = "bodies"
    /\ ei <= Len(elems)
    /\ BodyUnits = {}
    /\ ei' = ei + 1
    /\ UNCHANGED <<pc, elems, variables, globals, run, prev, constants, links, evalVars>>
    /\ UNCHANGED <<typeVars, funcVars, callVars, lowerVars, stmtVars>>

(* body pass: gen_stmt on the body has returned *)
EndBody ==
    /\ pc = "stmt"
    /\ tasks = <<>>
    /\ pc' = "bodies"
    /\ ei' = ei + 1
    /\ UNCHANGED <<elems, variables, globals, run, prev, constants, links, evalVars>>
    /\ UNCHANGED <<typeVars, funcVars, callVars, lowerVars, stmtVars>>

(* gen_toplevel returns *)
FinishBodies ==
    /\ pc = "bodies"
    /\ ei > Len(elems)
    /\ pc' = "done"
    /\ UNCHANGED <<elems, variables, typeVars, funcVars, callVars, lowerVars, stmtVars, bodyVars>>

----------------------------------------------------------------------------
(* SpecStmt: the bodies of up to MaxElems functions without parameters,    *)
(* lowered one after the other by the same Codegen                         *)

Void == [k |-> "Void", n |-> "", sub |-> <<>>]
Lit(n) == Expr("Int", n, I32)

StmtFuncs == { Func(n, <<>>, None, FALSE, Void, FALSE) : n \in {"f", "g"} }

InitStmt ==
    /\ pc = "sig"
    /\ elems = <<>>
    /\ structures = EmptyMap
    /\ aliases = EmptyMap
    /\ ir_types = <<>>
    /\ functions = EmptyMap
    /\ external_functions = EmptyMap
    /\ const_functions = EmptyMap
    /\ fun_id = 0
    /\ ir_funcs = <<>>
    /\ variables = EmptyMap
    /\ callsite = None
    /\ outcome = None
    /\ lowered = <<>>
    /\ globals = EmptyMap
    /\ blocks = <<>>
    /\ cur_func = 0
    /\ cur_block = 0
    /\ block_id = 0
    /\ break_blocks = <<>>
    /\ continue_blocks = <<>>
    /\ terminated = <<>>
    /\ tasks = <<>>
    /\ src = <<>>
    /\ nodes = 0
    /\ ei = 1
    /\ run = 1
    /\ prev = <<>>
    /\ constants = EmptyMap
    /\ links = <<>>
    /\ known_vars = EmptyMap
    /\ replaced = <<>>
    /\ try_eval_normal = FALSE

NextStmt ==
    \/ \E func \in StmtFuncs : DeclareFunc(func)
    \/ BeginGlobalsPass
    \/ BeginBodyPass
    \/ \E u \in 1..MaxElems : BeginBody(u, <<>>)
    \/ SkipElem
    \/ EndBody
    \/ FinishBodies
    \/ GenExprStmt(Lit("1"))
    \/ GenVar("v", I32, Some(Lit("1")))
    \/ GenBlock
    \/ SeqEnd
    \/ BlockEnd
    \/ GenBreak
    \/ GenContinue
    \/ \E withval \in BOOLEAN : GenReturn(withval)
    \/ \E els \in BOOLEAN : GenIf(els)
    \/ IfMid
    \/ IfEnd
    \/ GenCFor
    \/ CForMid
    \/ CForEnd
    \/ GenWhile
    \/ WhileEnd
    \/ GenLoop
    \/ LoopEnd

SpecStmt == InitStmt /\ [][NextStmt]_vars

----------------------------------------------------------------------------
(* Properties of the statement lowerer (SpecStmt) *)

(* every body begun so far has been lowered to its end *)
BodiesLowered == pc \in {"bodies", "done"}

(* the blocks control can pass to from block b: the targets of the         *)
(* terminator that ends it (the first one it was given)                    *)
Succ(b) ==
    IF blocks[b].terms = <<>> THEN {}
    ELSE {blocks[b].terms[1].t1, blocks[b].terms[1].t2} \ {0}

RECURSIVE ReachFrom(_, _)
ReachFrom(S, n) ==
    IF n = 0 THEN S ELSE ReachFrom(S \cup UNION { Succ(b) : b \in S }, n - 1)

EntryBlocks == { b \in 1..Len(blocks) : blocks[b].name = "entry" }
Reachable == ReachFrom(EntryBlocks, Len(blocks))

(* C5: once a function body is lowered, every block reachable from the     *)
(* entry block of the function ends with a terminator (return, jump or     *)
(* conditional), the block that is current at the end of the body included.*)
C5_ReachableBlocksTerminated ==
    BodiesLowered => \A b \in Reachable : blocks[b].terms # <<>>

(* the loops that are being lowered, innermost first *)
LoopOps == {"cfor_mid", "cfor_end", "while_end", "loop_end"}
IsLoopFrame(fr) == fr.op \in LoopOps
LoopFrames == SelectSeq(tasks, IsLoopFrame)

(* C6: break_blocks and continue_blocks are balanced: their depth is the   *)
(* number of loops (While, CFor, Loop) being lowered, their tops are the   *)
(* exit and the continue target of the innermost such loop, and both are   *)
(* empty between function bodies.                                          *)
C6_LoopStacksBalanced ==
    pc \in {"stmt", "bodies", "done"} =>
        /\ Len(break_blocks) = Len(LoopFrames)
        /\ Len(continue_blocks) = Len(LoopFrames)
        /\ LoopFrames # <<>> =>
            /\ Last(break_blocks) = Head(LoopFrames).b3
            /\ Last(continue_blocks) = Head(LoopFrames).b1

(* the step lowers a break or a continue that no loop encloses *)
LowersStrayJump ==
    /\ Len(src') = Len(src) + 1
    /\ Last(src') \in {"Break", "Continue"}
    /\ LoopFrames = <<>>

(* C7: lowering a break or a continue that is not inside any loop aborts   *)
(* the compilation, whatever statements and functions were lowered before. *)
C7_StrayJumpAborts == [][LowersStrayJump => pc' = "panic"]_vars

----------------------------------------------------------------------------
(* `while (1) { if (c) break; }` (SpecStmt) *)

(* the statement just lowered is `while (1) { if (c) break; }`: these are  *)
(* the last statements read, the last five blocks are the loop condition,  *)
(* the loop body, the exit, the then block that holds the break and the    *)
(* if-merge block, and While has set cur_block to the exit                 *)
WhileBreak == <<"While", "{", "If", "Break", "}">>
WhileBreakLowered ==
    /\ pc = "stmt"
    /\ Len(src) >= Len(WhileBreak)
    /\ SubSeq(src, Len(src) - Len(WhileBreak) + 1, Len(src)) = WhileBreak
    /\ Len(blocks) >= 5
    /\ cur_block = Len(blocks) - 2
LoopCondBlock == Len(blocks) - 4
ExitBlock == Len(blocks) - 2
BreakBlock == Len(blocks) - 1
MergeBlock == Len(blocks)

(* the blocks with a terminator that targets block x *)
Preds(x) ==
    { b \in 1..Len(blocks) :
        \E i \in 1..Len(blocks[b].terms) : x \in {blocks[b].terms[i].t1, blocks[b].terms[i].t2} }

(* C19 as stated: the block holding the break has exactly one terminator,  *)
(* the jump to the exit block, and that jump is the only edge into the     *)
(* exit block.                                                             *)
C19_ExitOnlyViaBreak ==
    WhileBreakLowered =>
        /\ blocks[BreakBlock].terms = <<Jump(ExitBlock)>>
        /\ Preds(ExitBlock) = {BreakBlock}

(* C19, amended: the block holding the break has exactly one terminator,   *)
(* the jump to the exit block (no fall-through jump to the if-merge        *)
(* block is added after the break: the merge block is entered only by the *)
(* false edge of the if in the loop body), and the edges into the exit     *)
(* block are that jump and the false edge of the loop condition's          *)
(* conditional.                                                            *)
C19_BreakEndsItsBlock ==
    WhileBreakLowered =>
        /\ blocks[BreakBlock].terms = <<Jump(ExitBlock)>>
        /\ Preds(MergeBlock) = {LoopCondBlock + 1}
        /\ Preds(ExitBlock) = {BreakBlock, LoopCondBlock}
        /\ blocks[LoopCondBlock].terms = <<Cond(LoopCondBlock + 1, ExitBlock)>>

(* the loop has been lowered and the break block targets the exit *)
C19_WhileBreakReached ==
    WhileBreakLowered /\ ExitBlock \in Succ(BreakBlock)

----------------------------------------------------------------------------
(* SpecBody: functions with parameters, globals with initializers, the     *)
(* bodies lowered by the body pass, and the whole compilation run a second *)
(* time on the same input by a fresh Codegen                               *)

BodyFuncs ==
    { Func("a", <<Param("x", I32)>>, None, FALSE, Void, FALSE),
      Func("main", <<>>, None, FALSE, I32, FALSE) }

GlobalElems ==
    { Global("x", I32, Some(Lit("1"))),
      Global("y", I32, Some(Lit("2"))),
      Global("z", I32, None) }

BodyExprs == { Lit("1"), Expr("Ident", "x", I32) }

(* Codegen::new for the second run: every field of the Codegen and the     *)
(* gccjit context start afresh; the input and the IR of the first run are  *)
(* kept aside                                                              *)
Restart ==
    /\ pc = "done"
    /\ run = 1
    /\ prev' = Some([elems |-> elems, src |-> src, blocks |-> blocks, ir_funcs |-> ir_funcs])
    /\ run' = 2
    /\ pc' = "sig"
    /\ elems' = <<>>
    /\ structures' = EmptyMap
    /\ aliases' = EmptyMap
    /\ ir_types' = <<>>
    /\ functions' = EmptyMap
    /\ external_functions' = EmptyMap
    /\ const_functions' = EmptyMap
    /\ fun_id' = 0
    /\ ir_funcs' = <<>>
    /\ variables' = EmptyMap
    /\ globals' = EmptyMap
    /\ blocks' = <<>>
    /\ cur_func' = 0
    /\ cur_block' = 0
    /\ block_id' = 0
    /\ break_blocks' = <<>>
    /\ continue_blocks' = <<>>
    /\ terminated' = <<>>
    /\ tasks' = <<>>
    /\ src' = <<>>
    /\ nodes' = 0
    /\ ei' = 1
    /\ constants' = EmptyMap
    /\ links' = <<>>
    /\ UNCHANGED evalVars
    /\ UNCHANGED <<callVars, lowerVars>>

InitBody == InitStmt

NextBody ==
    \/ \E func \in BodyFuncs : DeclareFunc(func)
    \/ BeginGlobalsPass
    \/ \E g \in GlobalElems : DeclareGlobal(g)
    \/ BeginBodyPass
    \/ \E u \in 1..MaxElems, order \in SeqsUpTo({"x", "y", "z"}, MaxGlobals) : BeginBody(u, order)
    \/ SkipElem
    \/ EndBody
    \/ FinishBodies
    \/ Restart
    \/ \E e \in BodyExprs : GenExprStmt(e)
    \/ GenVar("x", I32, Some(Lit("1")))
    \/ GenBlock
    \/ SeqEnd
    \/ BlockEnd

SpecBody == InitBody /\ [][NextBody]_vars

----------------------------------------------------------------------------
(* Properties of the body pass (SpecBody) *)

(* the storage an IR statement reads directly *)
LoadsOf(st) == IF st.val.op = "load" THEN {st.val.sub[1]} ELSE {}

(* C8: locals live for the lowering of one function body only: while the   *)
(* body of F is lowered Codegen.variables holds only locals of F (its      *)
(* parameters, its receiver, the variables of its body), and no statement  *)
(* of a block of F reads the local or the parameter of another function.   *)
C8_LocalsLiveForOneBody ==
    /\ pc = "stmt" => \A n \in DOMAIN variables : variables[n].lval.fn = cur_func
    /\ \A b \in 1..Len(blocks) : \A i \in 1..Len(blocks[b].stmts) :
            \A lv \in LoadsOf(blocks[b].stmts[i]) :
                lv.k = "local" => lv.fn = blocks[b].fn

(* the globals of the element list that have an initializer, in            *)
(* declaration order                                                       *)
HasInitializer(e) == e.kind = "Global" /\ IsSome(e.expr)
Initialized == SelectSeq(elems, HasInitializer)
(* the entry blocks of the IR functions named main *)
MainEntries ==
    { b \in 1..Len(blocks) : blocks[b].name = "entry" /\ ir_funcs[blocks[b].fn].name = "main" }

(* C9: the entry block of main starts with one assignment per global that  *)
(* has an initializer, in the declaration order of the globals; the        *)
(* parameter copies and the statements of the body come after them.        *)
C9_GlobalInitsInDeclarationOrder ==
    pc \in {"stmt", "bodies", "done"} =>
        \A b \in MainEntries :
            /\ Len(blocks[b].stmts) >= Len(Initialized)
            /\ \A i \in 1..Len(Initialized) :
                    blocks[b].stmts[i] = Assign(LVal("global", 0, Initialized[i].name),
                                                RVal(Unwrap(Initialized[i].expr)))

(* the second run on the same input has finished *)
BothRunsDone == run = 2 /\ pc = "done"

(* C10: two runs on the same input, each from a fresh Codegen, build the   *)
(* same IR (the same functions, blocks, statements and names, in the same  *)
(* order), and the block names of a run are L0, L1, ... without gaps.      *)
C10_Deterministic ==
    /\ BothRunsDone => blocks = prev[1].blocks /\ ir_funcs = prev[1].ir_funcs
    /\ pc = "done" =>
            { blocks[b].name : b \in { c \in 1..Len(blocks) : blocks[c].name # "entry" } }
                = { block_name_new(i) : i \in 0..(block_id - 1) }

----------------------------------------------------------------------------
(* gen_toplevel over a given element list: the four loops, one step per    *)
(* element.  elems is the whole list from the start and ei the position of *)
(* the running loop in it.                                                 *)

(* Codegen::new: every table empty, every counter zero *)
FreshCodegen ==
    /\ structures = EmptyMap
    /\ aliases = EmptyMap
    /\ ir_types = <<>>
    /\ functions = EmptyMap
    /\ external_functions = EmptyMap
    /\ const_functions = EmptyMap
    /\ fun_id = 0
    /\ ir_funcs = <<>>
    /\ variables = EmptyMap
    /\ callsite = None
    /\ outcome = None
    /\ lowered = <<>>
    /\ globals = EmptyMap
    /\ blocks = <<>>
    /\ cur_func = 0
    /\ cur_block = 0
    /\ block_id = 0
    /\ break_blocks = <<>>
    /\ continue_blocks = <<>>
    /\ terminated = <<>>
    /\ tasks = <<>>
    /\ src = <<>>
    /\ nodes = 0
    /\ ei = 1
    /\ run = 1
    /\ prev = <<>>
    /\ constants = EmptyMap
    /\ links = <<>>
    /\ known_vars = EmptyMap
    /\ replaced = <<>>
    /\ try_eval_normal = FALSE

ConstElem(name, expr) == [kind |-> "ConstExpr", name |-> name, expr |-> expr]
LinkElem(name) == [kind |-> "Link", name |-> name]

(* pass 1, one element: Elem::Struct, Elem::Link, Elem::ConstExpr,         *)
(* Elem::Alias, `_ => ()`                                                  *)
StructPassStep ==
    LET e == elems[ei]
        st == LowerFields(CurLow, e.fields, 1)
        struct_ == CStruct(e.name, Len(st.ir_types) + 1)
    IN  /\ pc = "pass1"
        /\ ei <= Len(elems)
        /\ ei' = ei + 1
        /\ IF e.kind = "Struct" THEN
                /\ IF st.panic THEN
                        /\ pc' = "panic"
                        /\ structures' = st.structures
                        /\ ir_types' = st.ir_types
                   ELSE
                        /\ pc' = pc
                        /\ ir_types' = Append(st.ir_types, e.name)
                        /\ structures' = IF e.name \notin DOMAIN st.structures
                                            THEN MapPut(st.structures, e.name,
                                                        [ty |-> struct_, types |-> e.fields])
                                            ELSE st.structures
                /\ UNCHANGED <<aliases, constants, links, evalVars>>
           ELSE IF e.kind = "Link" THEN
                /\ links' = Append(links, e.name)
                /\ UNCHANGED evalVars
                /\ UNCHANGED <<pc, structures, ir_types, aliases, constants>>
           ELSE IF e.kind = "ConstExpr" THEN
                /\ constants' = MapPut(constants, e.name, e.expr)
                /\ UNCHANGED <<pc, structures, ir_types, aliases, links, evalVars>>
           ELSE IF e.kind = "Alias" THEN
                /\ aliases' = MapPut(aliases, e.name, e.fields[1])
                /\ UNCHANGED <<pc, structures, ir_types, constants, links, evalVars>>
           ELSE UNCHANGED <<pc, structures, ir_types, aliases, constants, links, evalVars>>
        /\ UNCHANGED <<elems, variables, globals, run, prev>>
        /\ UNCHANGED <<funcVars, callVars, lowerVars, stmtVars>>

(* pass 2, one element: Elem::Func, `_ => ()` *)
SigPassStep ==
    LET func == elems[ei]
        st == LowerFields(CurLow, SigTypes(func), 1)
        c == Len(ir_funcs) + 1
        irf(name) == [name |-> name, params |-> IrParams(st, func),
                      variadic |-> func.variadic,
                      ret |-> ty_to_ctype(st, func.ret).cty]
        f2 == [func EXCEPT !.ir_temp_id = fun_id]
        unit == [f |-> f2, c |-> c,
                 this_ast |-> IF IsSome(func.this) THEN Some(Unwrap(func.this).ty) ELSE None,
                 this_ir |-> IF IsSome(func.this)
                                THEN Some(ty_to_ctype(st, Unwrap(func.this).ty).cty)
                                ELSE None,
                 irname |-> IrName(func)]
        r == InstallUnit(functions, fun_id, unit)
    IN  /\ pc = "pass2"
        /\ ei <= Len(elems)
        /\ ei' = ei + 1
        /\ IF func.kind # "Func" THEN
                UNCHANGED <<pc, elems, structures, ir_types, functions, external_functions,
                            fun_id, ir_funcs>>
           ELSE
                /\ structures' = st.structures
                /\ ir_types' = st.ir_types
                /\ IF st.panic THEN
                        /\ pc' = "panic"
                        /\ UNCHANGED <<elems, functions, external_functions, fun_id, ir_funcs>>
                   ELSE IF func.external \/ func.internal THEN
                        /\ pc' = pc
                        /\ ir_funcs' = Append(ir_funcs, irf(func.name))
                        /\ external_functions' =
                                MapPut(external_functions, func.name,
                                       [f |-> func, c |-> c, this_ast |-> None,
                                        this_ir |-> None, irname |-> func.name])
                        /\ UNCHANGED <<elems, functions, fun_id>>
                   ELSE
                        /\ pc' = pc
                        /\ elems' = [elems EXCEPT ![ei] = f2]
                        /\ ir_funcs' = Append(ir_funcs, irf(IrName(func)))
                        /\ functions' = r.functions
                        /\ fun_id' = r.fun_id
                        /\ UNCHANGED external_functions
        /\ UNCHANGED <<aliases, const_functions, variables>>
        /\ UNCHANGED <<globals, run, prev, constants, links, evalVars>>
        /\ UNCHANGED <<callVars, lowerVars, stmtVars>>

(* pass 3, one element: Elem::Global, `_ => ()` *)
GlobalPassStep ==
    LET g == elems[ei]
        r == ty_to_ctype(CurLow, g.ty)
    IN  /\ pc = "pass3"
        /\ ei <= Len(elems)
        /\ ei' = ei + 1
        /\ IF g.kind # "Global" THEN UNCHANGED <<pc, structures, ir_types, globals>>
           ELSE
                /\ structures' = r.st.structures
                /\ ir_types' = r.st.ir_types
                /\ IF r.st.panic THEN pc' = "panic" /\ globals' = globals
                   ELSE /\ pc' = pc
                        /\ globals' = MapPut(globals, g.name,
                                             [info |-> VarInfo(LVal("global", 0, g.name), r.cty, g.ty),
                                              expr |-> g.expr])
        /\ UNCHANGED <<elems, aliases, variables, run, prev, constants, links, evalVars>>
        /\ UNCHANGED <<funcVars, callVars, lowerVars, stmtVars>>

(* PassEnd with an off-by-one loop bound: a loop stops before the last     *)
(* element of the list                                                     *)
PassEndBeforeLast ==
    /\ pc \in {"pass1", "pass2", "pass3"}
    /\ ei >= Len(elems)
    /\ pc' = IF pc = "pass1" THEN "pass2" ELSE IF pc = "pass2" THEN "pass3" ELSE "bodies"
    /\ ei' = 1
    /\ UNCHANGED <<elems, variables, globals, run, prev, constants, links, evalVars>>
    /\ UNCHANGED <<typeVars, funcVars, callVars, lowerVars, stmtVars>>

(* a loop of gen_toplevel has run over the whole list: the next one starts *)
PassEnd ==
    /\ pc \in {"pass1", "pass2", "pass3"}
    /\ ei > Len(elems)
    /\ pc' = IF pc = "pass1" THEN "pass2" ELSE IF pc = "pass2" THEN "pass3" ELSE "bodies"
    /\ ei' = 1
    /\ UNCHANGED <<elems, variables, globals, run, prev, constants, links, evalVars>>
    /\ UNCHANGED <<typeVars, funcVars, callVars, lowerVars, stmtVars>>

(* StmtKind::Expr whose expression is a call *)
GenCallStmt(call) ==
    LET o == CallOutcome(CurLow, call)
        rval == [op |-> "call", n |-> ToString(o.fn), cty |-> <<>>, sub |-> o.args]
    IN  /\ Reading("Call:" \o call.name)
        /\ tasks' = Cont
        /\ callsite' = Some(call)
        /\ outcome' = Some(o)
        /\ IF o.kind \in {"exit", "panic"}
            THEN pc' = o.kind /\ blocks' = blocks
            ELSE pc' = pc /\ blocks' = add_stmt(blocks, cur_block, Eval(rval))
        /\ UNCHANGED <<cur_func, cur_block, block_id, break_blocks, continue_blocks, terminated,
                       variables, elems>>
        /\ UNCHANGED <<typeVars, funcVars, lowerVars, bodyVars>>

----------------------------------------------------------------------------
(* SpecPass: gen_toplevel over every list of up to MaxFile distinct        *)
(* elements of all kinds, in every order; each function body is one        *)
(* statement that calls a function or reads a global or a constant         *)

PassElems ==
    { StructElem("S", <<I32>>),
      AliasElem("T", Basic("S")),
      ConstElem("k", Lit("7")),
      LinkElem("m"),
      Func("f", <<>>, None, FALSE, Void, FALSE),
      Func("g", <<>>, None, FALSE, Basic("S"), FALSE),
      Func("h", <<>>, None, FALSE, I32, TRUE),
      Global("x", Basic("T"), Some(Lit("1"))) }

PassLists ==
    { q \in SeqsUpTo(PassElems, MaxFile) : \A i, j \in 1..Len(q) : q[i] = q[j] => i = j }

PassCalls == { Call(n, None, <<>>) : n \in {"f", "g", "h"} }
PassExprs == { Expr("Ident", "x", Basic("T")), Expr("Ident", "k", I32) }

InitPass ==
    /\ pc = "pass1"
    /\ elems \in PassLists
    /\ structures = EmptyMap
    /\ aliases = EmptyMap
    /\ ir_types = <<>>
    /\ functions = EmptyMap
    /\ external_functions = EmptyMap
    /\ const_functions = EmptyMap
    /\ fun_id = 0
    /\ ir_funcs = <<>>
    /\ variables = EmptyMap
    /\ callsite = None
    /\ outcome = None
    /\ lowered = <<>>
    /\ globals = EmptyMap
    /\ blocks = <<>>
    /\ cur_func = 0
    /\ cur_block = 0
    /\ block_id = 0
    /\ break_blocks = <<>>
    /\ continue_blocks = <<>>
    /\ terminated = <<>>
    /\ tasks = <<>>
    /\ src = <<>>
    /\ nodes = 0
    /\ ei = 1
    /\ run = 1
    /\ prev = <<>>
    /\ constants = EmptyMap
    /\ links = <<>>
    /\ known_vars = EmptyMap
    /\ replaced = <<>>
    /\ try_eval_normal = FALSE

NextPass ==
    \/ StructPassStep
    \/ SigPassStep
    \/ GlobalPassStep
    \/ PassEnd
    \/ \E u \in 1..MaxFile, order \in SeqsUpTo({"x"}, 1) : BeginBody(u, order)
    \/ SkipElem
    \/ EndBody
    \/ FinishBodies
    \/ \E call \in PassCalls : GenCallStmt(call)
    \/ \E e \in PassExprs : GenExprStmt(e)

SpecPass == InitPass /\ [][NextPass]_vars

----------------------------------------------------------------------------
(* Properties of the pass structure (SpecPass) *)

(* what the pass that handles an element of this kind leaves behind *)
Registered(e) ==
    IF e.kind = "Struct" THEN e.name \in DOMAIN structures
    ELSE IF e.kind = "Alias" THEN e.name \in DOMAIN aliases /\ aliases[e.name] = e.fields[1]
    ELSE IF e.kind = "ConstExpr" THEN e.name \in DOMAIN constants /\ constants[e.name] = e.expr
    ELSE IF e.kind = "Link" THEN \E i \in 1..Len(links) : links[i] = e.name
    ELSE IF e.kind = "Global" THEN e.name \in DOMAIN globals
    ELSE IF e.external THEN e.name \in DOMAIN external_functions
    ELSE /\ e.name \in DOMAIN functions
         /\ \E u \in 1..Len(functions[e.name]) : SameSignature(functions[e.name][u], e)

(* the pass that handles the elements of a kind; the body pass is pass 4 *)
PassOf(kind) == IF kind = "Func" THEN 2 ELSE IF kind = "Global" THEN 3 ELSE 1
(* the pass that is running *)
RunningPass ==
    IF pc = "pass1" THEN 1 ELSE IF pc = "pass2" THEN 2 ELSE IF pc = "pass3" THEN 3
    ELSE IF pc \in {"bodies", "stmt", "done"} THEN 4 ELSE 0

(* C11: each loop of gen_toplevel runs over the whole element list before  *)
(* the next starts: while a pass runs, every element an earlier pass       *)
(* handles is registered, wherever it stands in the list; in particular no *)
(* body is lowered before every struct, alias, constant, link, signature   *)
(* and global is registered, and a call in a body to a function declared   *)
(* anywhere in the list resolves.                                          *)
C11_PassesRunToCompletion ==
    /\ \A i \in 1..Len(elems) :
            (RunningPass > PassOf(elems[i].kind)) => Registered(elems[i])
    /\ blocks # <<>> => \A i \in 1..Len(elems) : Registered(elems[i])
    /\ (CallLowered /\ \E i \in 1..Len(elems) :
                            elems[i].kind = "Func" /\ elems[i].name = TheCall.name)
            => TheOutcome.kind \in {"call", "extcall"}

(* the body of a function has lowered a call to a function that is         *)
(* declared later in the list                                              *)
C11_ForwardCallLowered ==
    /\ pc = "stmt"
    /\ CallLowered
    /\ TheOutcome.kind = "call"
    /\ \E j \in (ei + 1)..Len(elems) :
            /\ elems[j].kind = "Func"
            /\ elems[j].name = TheCall.name
            /\ functions[TheCall.name][1].c = TheOutcome.fn

----------------------------------------------------------------------------
(* Codegen::assign and the statement that holds an assignment *)

(* `let do_cast = match type_ { ... }` *)
do_cast(type_) ==
    IF type_.k = "Basic" THEN type_.n \notin DOMAIN structures
    ELSE IF type_.k = "Struct" THEN FALSE
    ELSE IF type_.k = "Ptr" THEN TRUE
    ELSE IF type_.k = "Array" THEN FALSE
    ELSE TRUE

(* lval.to_rvalue().get_type(): the IR type the local or global was        *)
(* created with                                                            *)
lval_type(lv) == IF lv.k = "global" THEN globals[lv.n].info.cty ELSE variables[lv.n].cty

(* StmtKind::Expr whose expression is ExprKind::Assign(to, from) *)
GenAssignStmt(to, from) ==
    LET lval == expr_to_lvalue(to)
        rval == gen_expr(from)
        val == IF do_cast(get_id_type(to))
                THEN new_cast(Unwrap(rval), lval_type(Unwrap(lval)))
                ELSE Unwrap(rval)
    IN  /\ Reading("Assign:" \o to.n \o "=" \o from.n)
        /\ tasks' = Cont
        /\ IF IsNone(lval) \/ IsNone(rval)
            THEN pc' = "panic" /\ blocks' = blocks
            ELSE /\ pc' = pc
                 /\ blocks' = add_stmt(add_stmt(blocks, cur_block, Assign(Unwrap(lval), val)),
                                       cur_block, Eval(Unwrap(rval)))
        /\ UNCHANGED <<cur_func, cur_block, block_id, break_blocks, continue_blocks, terminated,
                       variables>>
        /\ UNCHANGED notStmt

----------------------------------------------------------------------------
(* SpecCast: a struct S, an alias T of S, a function f with one parameter  *)
(* and main; the bodies declare, initialize and assign a variable of every *)
(* kind of type and call f                                                 *)

S == StructTy("S", <<I32>>)
DestTys == { I32, I64, Ptr(I32), Basic("S"), Basic("T"), S, ArrayTy(I32, Some(2)) }
(* the expressions stored into a destination of type d: one whose recorded *)
(* type is d and, for a primitive or pointer destination, an i32 literal   *)
SrcExpr(d) ==
    { Expr("Int", "2", d) }
        \cup (IF d.k = "Ptr" \/ d.n \in PrimNames THEN { Expr("Int", "1", I32) } ELSE {})

CastLists ==
    { << StructElem("S", <<I32>>), AliasElem("T", Basic("S")),
         Func("f", <<Param("p", d)>>, None, FALSE, Void, FALSE),
         Func("main", <<>>, None, FALSE, Void, FALSE) >> : d \in DestTys }

InitCast ==
    /\ pc = "pass1"
    /\ elems \in CastLists
    /\ FreshCodegen

NextCast ==
    \/ StructPassStep
    \/ SigPassStep
    \/ GlobalPassStep
    \/ PassEnd
    \/ BeginBody(1, <<>>)
    \/ SkipElem
    \/ EndBody
    \/ FinishBodies
    \/ \E d \in DestTys : GenVar("v", d, None)
    \/ \E d \in DestTys : \E e \in SrcExpr(d) : GenVar("v", d, Some(e))
    \/ \E n \in DOMAIN variables : \E e \in SrcExpr(variables[n].ty) :
            GenAssignStmt(Expr("Ident", n, variables[n].ty), e)
    \/ \E d \in DestTys : GenCallStmt(Call("f", None, <<Expr("Int", "3", d)>>))

SpecCast == InitCast /\ [][NextCast]_vars

----------------------------------------------------------------------------
(* Properties of the implicit casts (SpecCast) *)

(* the type is a struct, named directly, through Basic or through an alias *)
(* chain, or an array                                                      *)
RECURSIVE IsAggregate(_)
IsAggregate(ty) ==
    IF ty.k \in {"Struct", "Array"} THEN TRUE
    ELSE IF ty.k = "Basic" THEN
        IF ty.n \in PrimNames THEN FALSE
        ELSE IF ty.n \in DOMAIN structures THEN TRUE
        ELSE IF ty.n \in DOMAIN aliases THEN IsAggregate(aliases[ty.n])
        ELSE FALSE
    ELSE FALSE

(* this step lowers a statement that stores into a variable: the store is  *)
(* the first IR statement it adds to the current block                     *)
NewStmts ==
    SubSeq(blocks'[cur_block].stmts, Len(blocks[cur_block].stmts) + 1,
           Len(blocks'[cur_block].stmts))
StoreStep ==
    /\ pc = "stmt" /\ pc' = "stmt"
    /\ Len(src') > Len(src)
    /\ NewStmts # <<>>
    /\ NewStmts[1].op = "assign"
NewStore == NewStmts[1]
(* the type of the variable stored into, as declared *)
DestTy == variables'[NewStore.dst.n].ty

(* the parameter types of the function a lowered call calls *)
CalleeParams == SigParams(Candidates[CHOOSE u \in CalledUnits : TRUE].f)
DirectCall == CallLowered /\ TheOutcome.kind = "call"

(* C12: an assignment, a variable initialization or an argument pass       *)
(* inserts no cast when the destination's type is a struct (named          *)
(* directly, through Basic or through an alias) or an array, and inserts a *)
(* cast for every other destination type.                                  *)
C12_CastScope ==
    /\ [](DirectCall =>
            \A i \in 1..Len(CalleeParams) :
                (TheOutcome.args[i].op = "cast") <=> ~IsAggregate(CalleeParams[i]))
    /\ [][StoreStep => ((NewStore.val.op = "cast") <=> ~IsAggregate(DestTy))]_vars

(* C13: an implicit cast targets the IR type of the destination: the       *)
(* declared parameter type for an argument, the type of the lvalue for an  *)
(* assignment, the declared type of the variable for an initialization.    *)
C13_CastTargetsDestination ==
    /\ [](DirectCall =>
            \A i \in 1..Len(CalleeParams) :
                TheOutcome.args[i].op = "cast"
                    => TheOutcome.args[i].cty[1] = ty_to_ctype(CurLow, CalleeParams[i]).cty)
    /\ [][(StoreStep /\ NewStore.val.op = "cast")
            => NewStore.val.cty[1] = ty_to_ctype(CurLow, DestTy).cty]_vars

----------------------------------------------------------------------------
(* SpecSig: passes 1 and 2 over every list of up to MaxFile function       *)
(* declarations: declarations of f that differ in the types or only in the *)
(* names of the parameters and of the receiver, and declarations whose     *)
(* parameters are a pointer, an array, or two integers                     *)

SigFuncs ==
    { Func("f", <<Param(n, t)>>, None, FALSE, Void, FALSE) :
            n \in {"p", "q"}, t \in {I32, I64} }
        \cup { Func("f", <<>>, Some(Param(n, Ptr(I32))), FALSE, Void, FALSE) : n \in {"a", "b"} }

MangleFuncs ==
    { Func("f", <<Param("p", t)>>, None, FALSE, Void, FALSE) :
            t \in {Ptr(I32), ArrayTy(I32, Some(2))} }
        \cup { Func("f", <<Param("p", I32), Param("q", I32)>>, None, FALSE, Void, FALSE),
               Func("fi32", <<Param("p", I32)>>, None, FALSE, Void, FALSE) }

InitSig ==
    /\ pc = "pass1"
    /\ elems \in SeqsUpTo(SigFuncs \cup MangleFuncs, MaxFile)
    /\ FreshCodegen

NextSig ==
    \/ StructPassStep
    \/ SigPassStep
    \/ PassEnd

SpecSig == InitSig /\ [][NextSig]_vars

(* the signature of a unit: parameter types, receiver type, variadic flag, *)
(* return type                                                             *)
Signature(u) == <<SigParams(u.f), u.this_ast, u.f.variadic, u.f.ret>>

(* C14: no overload list holds two units with equal (parameter types,      *)
(* receiver type, variadic flag, return type); declaring a signature again *)
(* overwrites the unit, also when only the names of the parameters or of   *)
(* the receiver differ.                                                    *)
C14_NoEqualSignatures ==
    \A name \in DOMAIN functions :
        \A i, j \in 1..Len(functions[name]) :
            Signature(functions[name][i]) = Signature(functions[name][j]) => i = j

----------------------------------------------------------------------------
(* SpecNode: passes 1 to 3 over every list of up to MaxFile distinct       *)
(* elements among a struct Node with a field of type *Node, a plain struct *)
(* B, and globals of the two struct types (Type::Struct, lowered by        *)
(* ty_to_ctype)                                                            *)

NodeFields == <<I32, Ptr(Basic("Node"))>>
NodeElems ==
    { StructElem("Node", NodeFields),
      StructElem("B", <<I32>>),
      AliasElem("T", Basic("B")),
      Global("g", StructTy("Node", NodeFields), None),
      Global("h", StructTy("B", <<I32>>), None),
      Global("k", Ptr(Basic("T")), None) }

InitNode ==
    /\ pc = "pass1"
    /\ elems \in { q \in SeqsUpTo(NodeElems, MaxFile) : \A i, j \in 1..Len(q) : q[i] = q[j] => i = j }
    /\ FreshCodegen

NextNode ==
    \/ StructPassStep
    \/ SigPassStep
    \/ GlobalPassStep
    \/ PassEnd

SpecNode == InitNode /\ [][NextNode]_vars

(* the list declares the struct Node or a global of that struct type *)
MentionsNode ==
    \E i \in 1..Len(elems) : elems[i].name \in {"Node", "g"}

(* C15: lowering a struct with a pointer field to itself, as a top-level   *)
(* element or through ty_to_ctype, ends without a fatal error and          *)
(* constructs exactly one IR type for it.                                  *)
C15_SelfReferenceLowers ==
    /\ pc # "panic"
    /\ Cardinality({ i \in 1..Len(ir_types) : ir_types[i] = "Node" }) <= 1
    /\ (pc = "bodies" /\ MentionsNode) => "Node" \in DOMAIN structures

----------------------------------------------------------------------------
(* sizeof: Codegen::ty_size, the ty_size of the constant evaluator, and    *)
(* the lowering of ExprKind::SizeOf and of the integer literal a folded    *)
(* sizeof has become                                                       *)

VectorTy(t, size) == [k |-> "Vector", n |-> "", sub |-> <<t>>, len |-> <<size>>]

(* std::mem::size_of::<usize>() and size_of::<*const u8>() of the host the *)
(* compiler is built for (a 64-bit host)                                   *)
HostWord == 8
MaxI32 == 2147483647
(* `size as i32`; every size the inputs yield is below 2^31 *)
as_i32(x) == IF x <= MaxI32 THEN x ELSE ((x - MaxI32) - 1) - MaxI32 - 1

(* the widths of the primitive names in Codegen::ty_size *)
PrimSize(name) ==
    IF name \in {"u8", "i8", "char", "bool"} THEN 1
    ELSE IF name \in {"i16", "u16"} THEN 2
    ELSE IF name \in {"i32", "u32", "f32"} THEN 4
    ELSE 8

RECURSIVE ty_size(_)
RECURSIVE SumSizes(_, _)
(* `for field in structure.types.iter() { size += self.ty_size(field) }`;  *)
(* None stands for a panic                                                 *)
SumSizes(types, i) ==
    IF i > Len(types) THEN Some(0)
    ELSE LET a == ty_size(types[i])
             b == SumSizes(types, i + 1)
         IN  IF IsNone(a) \/ IsNone(b) THEN None ELSE Some(Unwrap(a) + Unwrap(b))

(* Codegen::ty_size *)
ty_size(ty) ==
    IF ty.k = "Vector" THEN
        LET a == ty_size(ty.sub[1]) IN IF IsNone(a) THEN None ELSE Some(Unwrap(a) * ty.len[1])
    ELSE IF ty.k = "Void" THEN Some(0)
    ELSE IF ty.k = "Basic" THEN
        IF ty.n \in PrimNames THEN Some(PrimSize(ty.n))
        ELSE IF ty.n \in DOMAIN structures THEN SumSizes(structures[ty.n].types, 1)
        ELSE IF ty.n \in DOMAIN aliases THEN ty_size(aliases[ty.n])
        ELSE None
    ELSE IF ty.k \in {"Ptr", "Func"} THEN Some(8)
    ELSE IF ty.k = "Struct" THEN
        IF ty.n \in DOMAIN structures THEN SumSizes(structures[ty.n].types, 1) ELSE None
    ELSE IF ty.len # <<>> THEN
        LET a == ty_size(ty.sub[1]) IN IF IsNone(a) THEN None ELSE Some(Unwrap(a) * ty.len[1])
    ELSE Some(8)

RECURSIVE const_ty_size(_)
RECURSIVE ConstSumSizes(_, _)
(* the loop over s.fields of the Struct arm; None is the None of the code  *)
ConstSumSizes(fields, i) ==
    IF i > Len(fields) THEN Some(0)
    ELSE LET a == const_ty_size(fields[i])
         IN  IF IsNone(a) THEN None
             ELSE LET b == ConstSumSizes(fields, i + 1)
                  IN  IF IsNone(b) THEN None ELSE Some(Unwrap(a) + Unwrap(b))

(* optimize::const_eval::ty_size *)
const_ty_size(ty) ==
    IF ty.k = "Vector" THEN None
    ELSE IF ty.k = "Ptr" THEN Some(HostWord)
    ELSE IF ty.k = "Basic" THEN
        IF ty.n \in {"u8", "i8", "char"} THEN Some(1)
        ELSE IF ty.n \in {"u16", "i16"} THEN Some(2)
        ELSE IF ty.n \in {"u32", "i32"} THEN Some(4)
        ELSE IF ty.n \in {"u64", "i64"} THEN Some(8)
        ELSE IF ty.n \in {"usize", "isize"} THEN Some(HostWord)
        ELSE None
    ELSE IF ty.k = "Struct" THEN ConstSumSizes(ty.sub, 1)
    ELSE IF ty.k = "Array" THEN
        IF ty.len # <<>> THEN
            LET a == const_ty_size(ty.sub[1])
            IN  IF IsNone(a) THEN None ELSE Some(Unwrap(a) * ty.len[1])
        ELSE Some(HostWord)
    ELSE IF ty.k = "Func" THEN Some(HostWord)
    ELSE Some(0)

(* Context::new_rvalue_from_int(type, value) *)
IntConst(cty, v) == [op |-> "int", n |-> ToString(v), cty |-> <<cty>>, sub |-> <<>>]

(* StmtKind::Expr whose expression is sizeof(ty).  With fold the constant  *)
(* evaluator has run over the body first: where its ty_size yields a size  *)
(* the expression has become Const::Imm(size, IntSuffix::Int), an          *)
(* ExprKind::Int, which the lowerer emits as an i32 constant; otherwise    *)
(* the lowerer emits ty_size as a usize constant.                          *)
GenSizeOfStmt(ty, fold) ==
    LET folded == fold /\ IsSome(const_ty_size(ty))
        size == ty_size(ty)
        val == IF folded THEN as_i32(Unwrap(const_ty_size(ty))) ELSE as_i32(Unwrap(size))
        rval == IF folded THEN Some(IntConst(CPrim("i32"), val))
                ELSE IF IsSome(size) THEN Some(IntConst(CPrim("usize"), val))
                ELSE None
    IN  /\ Reading("SizeOf")
        /\ tasks' = Cont
        /\ IF IsNone(rval)
            THEN pc' = "panic" /\ blocks' = blocks /\ lowered' = lowered
            ELSE /\ pc' = pc
                 /\ blocks' = add_stmt(blocks, cur_block, Eval(Unwrap(rval)))
                 /\ lowered' = Append(lowered, [op |-> "sizeof", ty |-> ty,
                                                res |-> Some(val)])
        /\ UNCHANGED <<cur_func, cur_block, block_id, break_blocks, continue_blocks, terminated,
                       variables>>
        /\ UNCHANGED <<elems, typeVars, funcVars, callVars, bodyVars>>

----------------------------------------------------------------------------
(* gen_expr, ExprKind::Binary(op, e1, e2) on integer operands *)

(* semantic::ty_is_any_int *)
ty_is_any_int(t) ==
    t.k = "Basic" /\ t.n \in {"u8", "i8", "i16", "u16", "i32", "u32", "i64", "u64", "usize"}

IntOps == {"+", "-", "*", "/", "%", "|", "&", "^", ">>", "<<"}
CmpOps == {"==", ">", "<", ">=", "<=", "!="}

(* `let comparison = match op { ... }` *)
ComparisonOp(op) ==
    IF op = "==" THEN "Equals" ELSE IF op = ">" THEN "GreaterThan"
    ELSE IF op = "<" THEN "LessThan" ELSE IF op = ">=" THEN "GreaterThanEquals"
    ELSE IF op = "<=" THEN "LessThanEquals" ELSE "NotEquals"

(* `let binary = match op { ... }` of the integer branch; None is panic!   *)
BinaryOp(op) ==
    IF op = "+" THEN Some("Plus") ELSE IF op = "-" THEN Some("Minus")
    ELSE IF op = "*" THEN Some("Mult") ELSE IF op = "/" THEN Some("Divide")
    ELSE IF op = "%" THEN Some("Modulo") ELSE IF op = "|" THEN Some("BitwiseAnd")
    ELSE IF op = "&" THEN Some("BitwiseAnd") ELSE IF op = "^" THEN Some("BitwiseXor")
    ELSE IF op = ">>" THEN Some("RShift") ELSE IF op = "<<" THEN Some("LShift")
    ELSE None

(* StmtKind::Expr whose expression is e1 op e2, both operands of integer   *)
(* type: the comparison branch, else the integer branch                    *)
GenBinaryStmt(op, e1, e2) ==
    LET cty == ty_to_ctype(CurLow, get_id_type(e1)).cty
        l == Unwrap(gen_expr(e1))
        r == new_cast(Unwrap(gen_expr(e2)), cty)
        binary == BinaryOp(op)
        rval == IF op \in CmpOps
                    THEN Some([op |-> "comparison", n |-> ComparisonOp(op), cty |-> <<>>,
                               sub |-> <<l, r>>])
                ELSE IF IsSome(binary)
                    THEN Some([op |-> "binary_op", n |-> Unwrap(binary), cty |-> <<cty>>,
                               sub |-> <<l, r>>])
                ELSE None
    IN  /\ ty_is_any_int(get_id_type(e1)) /\ ty_is_any_int(get_id_type(e2))
        /\ Reading("Binary:" \o op)
        /\ tasks' = Cont
        /\ IF IsNone(rval)
            THEN pc' = "panic" /\ blocks' = blocks /\ lowered' = lowered
            ELSE /\ pc' = pc
                 /\ blocks' = add_stmt(blocks, cur_block, Eval(Unwrap(rval)))
                 /\ lowered' = Append(lowered, [op |-> op, ty |-> get_id_type(e1),
                                                res |-> Some(Unwrap(rval).n)])
        /\ UNCHANGED <<cur_func, cur_block, block_id, break_blocks, continue_blocks, terminated,
                       variables>>
        /\ UNCHANGED <<elems, typeVars, funcVars, callVars, bodyVars>>

----------------------------------------------------------------------------
(* SpecExpr: a struct P, an alias T of P and two functions whose bodies    *)
(* are one expression statement each: a sizeof of every kind of type,      *)
(* lowered directly or after the constant evaluator has run, or a binary   *)
(* operation on integer literals                                           *)

PFields == <<I32, Ptr(I32), Basic("u8")>>
SizeTys ==
    { I32, Basic("u8"), Basic("bool"), Basic("f64"), Basic("usize"), Basic("isize"), Void,
      Ptr(I32), FnPtrTy, Basic("P"), Basic("T"), StructTy("P", PFields),
      ArrayTy(I32, Some(3)), ArrayTy(Basic("P"), Some(2)), ArrayTy(I32, None),
      VectorTy(I32, 4) }

InitExpr ==
    /\ pc = "pass1"
    /\ elems = << StructElem("P", PFields), AliasElem("T", Basic("P")),
                  Func("f", <<>>, None, FALSE, Void, FALSE),
                  Func("main", <<>>, None, FALSE, Void, FALSE) >>
    /\ FreshCodegen

NextExpr ==
    \/ StructPassStep
    \/ SigPassStep
    \/ GlobalPassStep
    \/ PassEnd
    \/ BeginBody(1, <<>>)
    \/ SkipElem
    \/ EndBody
    \/ FinishBodies
    \/ \E ty \in SizeTys, fold \in BOOLEAN : GenSizeOfStmt(ty, fold)
    \/ \E op \in IntOps \cup CmpOps \cup {"&&"}, t1, t2 \in {I32, I64} :
            GenBinaryStmt(op, Expr("Int", "1", t1), Expr("Int", "2", t2))

SpecExpr == InitExpr /\ [][NextExpr]_vars

(* C17: the integer constant in the IR for sizeof(T) is Codegen::ty_size   *)
(* of T, whether the lowerer handles the SizeOf or the constant evaluator  *)
(* has folded it first.                                                    *)
C17_SizeofAgreement ==
    \A i \in 1..Len(lowered) :
        lowered[i].op = "sizeof" => lowered[i].res = ty_size(lowered[i].ty)

(* the opcodes the lowerings of the source operator op have produced *)
OpcodesOf(op) == { Unwrap(lowered[i].res) : i \in { j \in 1..Len(lowered) : lowered[j].op = op } }

(* C16: on integer operands `|` lowers to bitwise OR, `&` to bitwise AND   *)
(* and `^` to bitwise XOR, three distinct opcodes, for every pair of       *)
(* integer operand types.                                                  *)
C16_BitwiseOpcodes ==
    /\ OpcodesOf("|") \subseteq {"BitwiseOr"}
    /\ OpcodesOf("&") \subseteq {"BitwiseAnd"}
    /\ OpcodesOf("^") \subseteq {"BitwiseXor"}

----------------------------------------------------------------------------
(* SpecConst: gen_toplevel over every list of up to MaxFile distinct       *)
(* functions among a constant function k and the ordinary functions f and  *)
(* main; each body is one statement that calls k or f                      *)

(* a Function with its `constant` flag *)
FuncC(name, ret, constant) ==
    [name |-> name, params |-> <<>>, this |-> None, variadic |-> FALSE, ret |-> ret,
     external |-> FALSE, internal |-> FALSE, ir_temp_id |-> 0, kind |-> "Func",
     constant |-> constant]

InitConst ==
    /\ pc = "pass1"
    /\ elems \in { q \in SeqsUpTo({ FuncC("k", I32, TRUE), FuncC("f", Void, FALSE),
                                   FuncC("main", Void, FALSE) }, MaxFile) :
                        \A i, j \in 1..Len(q) : q[i] = q[j] => i = j }
    /\ FreshCodegen

NextConst ==
    \/ StructPassStep
    \/ SigPassStep
    \/ GlobalPassStep
    \/ PassEnd
    \/ BeginBody(1, <<>>)
    \/ EndBody
    \/ FinishBodies
    \/ \E n \in {"k", "f"} : GenCallStmt(Call(n, None, <<>>))

SpecConst == InitConst /\ [][NextConst]_vars

(* the functions of the list that are marked constant *)
ConstantFuncs == { i \in 1..Len(elems) : elems[i].constant }

(* C18: a function marked constant is kept only as AST: it is in no        *)
(* ordinary overload list, no IR function is created and no body lowered   *)
(* for it, and a call to it emits the placeholder zero, not a call.        *)
C18_ConstantFunctionsStayAst ==
    /\ \A i \in ConstantFuncs :
            /\ elems[i].name \notin DOMAIN functions
            /\ \A c \in 1..Len(ir_funcs) : ir_funcs[c].name # IrName(elems[i])
    /\ (CallLowered /\ \E i \in ConstantFuncs : elems[i].name = TheCall.name)
            => TheOutcome.kind = "const0"

----------------------------------------------------------------------------
(* Properties of the mangled names (SpecSig) *)

(* the units of all overload lists *)
AllUnits == UNION { { functions[n][i] : i \in 1..Len(functions[n]) } : n \in DOMAIN functions }

(* C20: two ordinary functions (none of them main) that differ in source   *)
(* name, receiver type or parameter-type tuple have different IR names.    *)
C20_MangledNamesDistinct ==
    \A a, b \in AllUnits :
        (\/ a.f.name # b.f.name
         \/ a.this_ast # b.this_ast
         \/ SigParams(a.f) # SigParams(b.f))
            => a.irname # b.irname

----------------------------------------------------------------------------
(* Properties of the termination tracking and of the block terminators     *)
(* (SpecStmt)                                                              *)

(* the constructs being lowered that have pushed an entry on `terminated`: *)
(* an If in one of its branches, a While or a CFor in its body             *)
PushOps == {"if_mid", "if_end", "while_end", "cfor_end"}
IsPushFrame(fr) == fr.op \in PushOps
PushFrames == SelectSeq(tasks, IsPushFrame)

(* C25: the `terminated` stack is balanced: every construct that pushes an *)
(* entry (If, While, CFor) pops it before it finishes, so the depth is the *)
(* number of such constructs being lowered and the top, when If reads it,  *)
(* is the entry of that If's own branch.                                   *)
C25_TerminatedStackBalanced ==
    pc \in {"stmt", "bodies", "done"} => Len(terminated) = Len(PushFrames)

(* the step lowers a break whose innermost enclosing loop is a Loop *)
LowersBreakInLoop ==
    /\ pc = "stmt"
    /\ Len(src') = Len(src) + 1
    /\ Last(src') = "Break"
    /\ LoopFrames # <<>>
    /\ Head(LoopFrames).op = "loop_end"

(* C26: a break in the body of a Loop is lowered without aborting, in      *)
(* every context: it ends the current block with a jump to the exit block  *)
(* of the Loop, marks the scope terminated, and lowering continues in the  *)
(* exit block.                                                             *)
C26_BreakInLoopSucceeds ==
    [][LowersBreakInLoop =>
            /\ pc' = "stmt"
            /\ blocks' = end_with(blocks, cur_block, Jump(Head(LoopFrames).b3))
            /\ cur_block' = Head(LoopFrames).b3
            /\ terminated' # <<>> /\ Last(terminated')]_vars

(* C29: every block is ended at most once, and nothing is appended to a    *)
(* block after it was ended.                                               *)
C29_BlocksEndedOnce ==
    \A b \in 1..Len(blocks) :
        /\ Len(blocks[b].terms) <= 1
        /\ \A i \in 1..Len(blocks[b].stmts) : ~blocks[b].stmts[i].late

----------------------------------------------------------------------------
(* SpecArgs: calls whose callee declares primitive, struct and array       *)
(* parameters, with and without a variadic tail                            *)

P == StructTy("P", <<I32>>)
ArgsTys == {I32, P, ArrayTy(I32, None)}
ArgsParams == { [i \in 1..Len(ts) |-> Param(ParamNames[i], ts[i])] : ts \in SeqsUpTo(ArgsTys, MaxParams) }
ArgsFuncs ==
    { Func("f", ps, th, v, I32, FALSE) :
        ps \in ArgsParams, th \in {None, Some(Param("self", Ptr(Basic("P"))))}, v \in BOOLEAN }
    \cup { Func("f", ps, None, v, I32, TRUE) : ps \in ArgsParams, v \in BOOLEAN }
ArgsCalls ==
    { Call("f", th, [i \in 1..Len(ts) |-> Expr("Ident", ParamNames[i], ts[i])]) :
        ts \in SeqsUpTo(ArgsTys, MaxArgs),
        th \in {None, Some(Expr("Ident", "p", Basic("P")))} }

InitArgs == InitCall

NextArgs ==
    \/ \E func \in ArgsFuncs : DeclareFunc(func)
    \/ EndSigPass
    \/ \E call \in ArgsCalls : GenCall(call)

SpecArgs == InitArgs /\ [][NextArgs]_vars

(* the declaration of the function the emitted call calls *)
Callee ==
    IF TheOutcome.kind = "extcall" THEN external_functions[TheCall.name].f
    ELSE Candidates[CHOOSE i \in CalledUnits : TRUE].f
IsAggregateTy(t) == is_struct(t) \/ is_array(t)

C30_ReceiverAtDeclaredIndex ==
    (CallLowered /\ TheOutcome.kind = "call" /\ IsSome(TheCall.this) /\ IsSome(Callee.this)) =>
        LET d == Len(Callee.params)
        IN  /\ Len(ir_funcs[TheOutcome.fn].params) = d + 1
            /\ Len(TheOutcome.args) >= d + 1
            /\ TheOutcome.args[d + 1] = ReceiverArg(CurLow, Unwrap(TheCall.this))

(* the entry blocks the body pass opened in the IR function c *)
EntriesOf(c) == { b \in 1..Len(blocks) : blocks[b].fn = c /\ blocks[b].name = "entry" }

(* C27: the ids recorded by the signature pass pair the function elements  *)
(* with the IR functions one-to-one: distinct elements carry distinct ids, *)
(* all below fun_id, and when the body pass is over the body of every      *)
(* element with a body was lowered exactly once, into the IR function the  *)
(* signature pass created for that element, also when a later element      *)
(* repeats the signature.  (Element i of a list of functions is declared   *)
(* as IR function i.)                                                      *)
C27_BodiesPairedById ==
    /\ \A i \in 1..Len(elems) : elems[i].ir_temp_id < fun_id
    /\ \A i, j \in 1..Len(elems) : i # j => elems[i].ir_temp_id # elems[j].ir_temp_id
    /\ pc = "done" => \A i \in 1..Len(elems) : Cardinality(EntriesOf(i)) = 1

----------------------------------------------------------------------------
(* The constant evaluator (src/havo/src/optimize/const_eval.rs)            *)
(*                                                                         *)
(* The width of the integers is scaled down from 64 to IntBits bits; the   *)
(* operations wrap at that width as the i64 operations do at 64.           *)

IntBits == 4
MaxIter == 3

Modulus == 2 ^ IntBits
MinInt == -(2 ^ (IntBits - 1))
MaxInt == 2 ^ (IntBits - 1) - 1
Ints == MinInt..MaxInt
(* two's-complement wrapping of an exact result *)
Wrap(x) == ((x - MinInt) % Modulus) + MinInt
Abs(x) == IF x < 0 THEN -x ELSE x
(* the quotient of the machine division, rounded toward zero *)
TruncDiv(a, b) == IF (a < 0) = (b < 0) THEN Abs(a) \div Abs(b) ELSE -(Abs(a) \div Abs(b))

(* enum Const: the variants the inputs produce *)
ConstImm(v, s, b) == [k |-> "Imm", v |-> v, s |-> s, b |-> b]
ConstBool(v) == [k |-> "Bool", v |-> v]
ConstVoid == [k |-> "Void"]
ConstRet(c) == [k |-> "Ret", sub |-> c]
ConstNone == [k |-> "None"]
is_none(c) == c.k = "None"

(* expressions and statements of the AST, with their node ids; ty is the   *)
(* type the semantic checker recorded for the node (ctx.types)             *)
EInt(id, v, s) == [k |-> "Int", id |-> id, v |-> v, s |-> s, b |-> "Dec", ty |-> I32]
EBool(id, v) == [k |-> "Bool", id |-> id, v |-> v, ty |-> Basic("bool")]
EIdent(id, n, ty) == [k |-> "Ident", id |-> id, n |-> n, ty |-> ty]
EBinary(id, op, l, r, ty) == [k |-> "Binary", id |-> id, op |-> op, l |-> l, r |-> r, ty |-> ty]
EAssign(id, to, from) == [k |-> "Assign", id |-> id, to |-> to, from |-> from, ty |-> to.ty]
ECall(id, n, args, ty) == [k |-> "Call", id |-> id, n |-> n, args |-> args, ty |-> ty]

SBlock(ss) == [k |-> "Block", ss |-> ss]
SExpr(e) == [k |-> "Expr", e |-> e]
SReturn(e) == [k |-> "Return", e |-> e]
SVar(n, e) == [k |-> "Var", n |-> n, e |-> e]
SIf(c, t, e) == [k |-> "If", c |-> c, t |-> t, e |-> e]
SWhile(c, b) == [k |-> "While", c |-> c, b |-> b]
SLoop(b) == [k |-> "Loop", b |-> b]
SBreak == [k |-> "Break"]

(* a function of the file: Function { name, params, ret, constant, body } *)
FuncB(name, params, ret, constant, body) ==
    [name |-> name, params |-> params, this |-> None, variadic |-> FALSE, ret |-> ret,
     external |-> FALSE, internal |-> FALSE, ir_temp_id |-> 0, kind |-> "Func",
     constant |-> constant, body |-> body]

(* the state an evaluation threads through: known_vars, the calls of       *)
(* replace_expr_to made, and how the evaluation stopped: "" (it did not),  *)
(* "panic" (the compiler aborted), "loop" (MaxIter iterations of a `while  *)
(* let` loop were run and the loop goes on)                                *)
EvalState(kv, rep, halt) == [kv |-> kv, rep |-> rep, halt |-> halt]
Halt(es, how) == [es EXCEPT !.halt = how]
Val(c, es) == [val |-> c, es |-> es]

MapDel(m, key) == [x \in (DOMAIN m) \ {key} |-> m[x]]

(* Const::to_kind: the literal a constant is written back as; None for     *)
(* the variants on which it panics                                         *)
RECURSIVE to_kind(_)
to_kind(c) ==
    IF c.k = "Imm" THEN Some([k |-> "Int", v |-> c.v, b |-> c.b, s |-> c.s])
    ELSE IF c.k = "Bool" THEN Some([k |-> "Bool", v |-> c.v])
    ELSE IF c.k = "Ret" THEN to_kind(c.sub)
    ELSE None

(* `f.replace_expr_to(id, Expr { id, kind: val.to_kind() })` on the        *)
(* function at index fid of the file                                       *)
replace_expr_to(es, fid, id, c) ==
    IF es.halt # "" THEN es
    ELSE IF IsNone(to_kind(c)) THEN Halt(es, "panic")
    ELSE [es EXCEPT !.rep = Append(@, [fid |-> fid, id |-> id, lit |-> Unwrap(to_kind(c))])]

(* the integer arms of eval_binop's match on the operator: the constant,   *)
(* or None where the operation panics                                      *)
ImmBinop(op, i1, i2, s, b) ==
    IF op = "+" THEN Some(ConstImm(Wrap(i1 + i2), s, b))
    ELSE IF op = "-" THEN Some(ConstImm(Wrap(i1 - i2), s, b))
    ELSE IF op = "*" THEN Some(ConstImm(Wrap(i1 * i2), s, b))
    ELSE IF op = "/" THEN
        IF i2 = 0 THEN None ELSE Some(ConstImm(Wrap(TruncDiv(i1, i2)), s, b))
    ELSE IF op = "%" THEN
        IF i2 = 0 \/ (i1 = MinInt /\ i2 = -1) THEN None
        ELSE Some(ConstImm(i1 - TruncDiv(i1, i2) * i2, s, b))
    ELSE IF op = "<" THEN Some(ConstBool(i1 < i2))
    ELSE IF op = ">" THEN Some(ConstBool(i1 > i2))
    ELSE IF op = "==" THEN Some(ConstBool(i1 = i2))
    ELSE IF op = "!=" THEN Some(ConstBool(i1 # i2))
    ELSE IF op = ">=" THEN Some(ConstBool(i1 >= i2))
    ELSE IF op = "<=" THEN Some(ConstBool(i1 <= i2))
    ELSE Some(ConstNone)

BoolBinop(op, b1, b2) ==
    IF op = "||" THEN ConstBool(b1 \/ b2)
    ELSE IF op = "&&" THEN ConstBool(b1 /\ b2)
    ELSE IF op = "==" THEN ConstBool(b1 = b2)
    ELSE IF op = "!=" THEN ConstBool(b1 # b2)
    ELSE ConstNone

(* the match of eval_binop on two known operands *)
BinopVal(op, c1, c2) ==
    IF c1.k = "Imm" /\ c2.k = "Imm" THEN ImmBinop(op, c1.v, c2.v, c1.s, c1.b)
    ELSE IF c1.k = "Bool" /\ c2.k = "Bool" THEN Some(BoolBinop(op, c1.v, c2.v))
    ELSE Some(ConstNone)

(* the overload a call to a constant or normal function evaluates: the     *)
(* first with as many parameters as arguments whose last parameter has the *)
(* type of the last argument (params_match is overwritten per argument)    *)
RECURSIVE FindFunc(_, _, _)
FindFunc(funcs, args, i) ==
    IF i > Len(funcs) THEN None
    ELSE IF Len(args) # Len(funcs[i].params) THEN FindFunc(funcs, args, i + 1)
    ELSE IF Len(args) = 0 \/ args[Len(args)].ty = funcs[i].params[Len(args)].ty
        THEN Some(funcs[i])
    ELSE FindFunc(funcs, args, i + 1)

RECURSIVE eval(_, _)
RECURSIVE eval_binop(_, _, _, _)
RECURSIVE try_assign(_, _, _)
RECURSIVE eval_constfn(_, _, _, _)
RECURSIVE BindParams(_, _, _, _, _)
RECURSIVE OptArgs(_, _, _)
RECURSIVE eval_stmt(_, _)
RECURSIVE BlockLoop(_, _, _, _)
RECURSIVE WhileLoop(_, _, _)
RECURSIVE eval_normal_stmt(_, _, _)
RECURSIVE NormalBlock(_, _, _, _)

(* ConstEval::try_get_var (the file holds no constant expression) *)
try_get_var(es, name) ==
    IF name \in DOMAIN es.kv THEN es.kv[name] ELSE ConstNone

eval_binop(es, op, lhs, rhs) ==
    LET r1 == eval(es, lhs)
        r2 == eval(r1.es, rhs)
        v == BinopVal(op, r1.val, r2.val)
    IN  IF r2.es.halt # "" THEN Val(ConstNone, r2.es)
        ELSE IF is_none(r1.val) \/ is_none(r2.val) THEN Val(ConstNone, r2.es)
        ELSE IF IsNone(v) THEN Val(ConstNone, Halt(r2.es, "panic"))
        ELSE Val(Unwrap(v), r2.es)

(* ConstEval::try_assign, the arm of an identifier *)
try_assign(es, to, from) ==
    IF to.k = "Ident" /\ to.n \in DOMAIN es.kv THEN
        LET r == eval(es, from)
        IN  IF r.es.halt # "" THEN r.es
            ELSE IF ~is_none(r.val)
                THEN [r.es EXCEPT !.kv = MapPut(@, to.n, r.val)]
                ELSE [r.es EXCEPT !.kv = MapDel(@, to.n)]
    ELSE es

(* the last arm of ExprKind::Call: "try to optimize arguments" *)
OptArgs(es, args, i) ==
    IF i > Len(args) \/ es.halt # "" THEN es
    ELSE LET r == eval(es, args[i])
         IN  IF is_none(r.val) THEN r.es
             ELSE OptArgs(replace_expr_to(r.es, ei, args[i].id, r.val), args, i + 1)

eval(es, expr) ==
    IF es.halt # "" THEN Val(ConstNone, es)
    ELSE IF expr.k = "Int" THEN Val(ConstImm(expr.v, expr.s, expr.b), es)
    ELSE IF expr.k = "Bool" THEN Val(ConstBool(expr.v), es)
    ELSE IF expr.k = "Binary" THEN eval_binop(es, expr.op, expr.l, expr.r)
    ELSE IF expr.k = "Ident" THEN Val(try_get_var(es, expr.n), es)
    ELSE IF expr.k = "Assign" THEN eval(try_assign(es, expr.to, expr.from), expr.from)
    ELSE IF expr.k = "Call" THEN
        IF expr.n \in DOMAIN const_functions
                \/ (expr.n \in DOMAIN functions /\ try_eval_normal) THEN
            LET funcs == IF expr.n \in DOMAIN const_functions
                            THEN const_functions[expr.n] ELSE functions[expr.n]
                func == FindFunc(funcs, expr.args, 1)
            IN  IF IsNone(func) THEN Val(ConstNone, Halt(es, "panic"))
                ELSE eval_constfn(es, Unwrap(func).params, Unwrap(Unwrap(func).body), expr.args)
        ELSE Val(ConstNone, OptArgs(es, expr.args, 1))
    ELSE Val(ConstNone, es)

(* the loop of eval_constfn over the parameters: new_vars, or the state in *)
(* which an argument was found unknown (ok = FALSE)                        *)
BindParams(es, params, args, i, new_vars) ==
    IF i > Len(params) \/ es.halt # "" THEN [ok |-> es.halt = "", es |-> es, vars |-> new_vars]
    ELSE LET r == eval(es, args[i])
         IN  IF r.es.halt # "" \/ is_none(r.val)
                THEN [ok |-> FALSE, es |-> r.es, vars |-> new_vars]
                ELSE BindParams(replace_expr_to(r.es, ei, args[i].id, r.val), params, args,
                                i + 1, MapPut(new_vars, params[i].name, r.val))

eval_constfn(es, params, body, args) ==
    LET old_vars == es.kv
        b == BindParams(es, params, args, 1, EmptyMap)
        r == eval_stmt([b.es EXCEPT !.kv = b.vars], body)
        back == [r.es EXCEPT !.kv = old_vars]
    IN  IF ~b.ok THEN Val(ConstNone, b.es)
        ELSE IF r.es.halt # "" THEN Val(ConstNone, r.es)
        ELSE IF IsSome(r.val) THEN
            IF Unwrap(r.val).k = "Ret" THEN Val(Unwrap(r.val).sub, back)
            ELSE Val(Unwrap(r.val), back)
        ELSE Val(ConstNone, back)

(* the loop of the Block arm of eval_stmt from statement i on; last is the *)
(* value of the statement before                                           *)
BlockLoop(es, ss, i, last) ==
    IF i > Len(ss) \/ es.halt # "" THEN Val(last, es)
    ELSE LET r == eval_stmt(es, ss[i])
         IN  IF IsSome(r.val) /\ Unwrap(r.val).k = "Ret" THEN r
             ELSE BlockLoop(r.es, ss, i + 1, r.val)

(* `while let Const::Bool(true) = cond { ... }`: the condition was         *)
(* evaluated before the loop and is true; n iterations are left to model   *)
WhileLoop(es, body, n) ==
    IF es.halt # "" THEN Val(None, es)
    ELSE IF n = 0 THEN Val(None, Halt(es, "loop"))
    ELSE LET r == eval_stmt(es, body)
         IN  IF r.es.halt # "" THEN Val(None, r.es)
             ELSE IF IsNone(r.val) THEN Val(None, r.es)
             ELSE IF is_none(Unwrap(r.val)) THEN Val(None, r.es)
             ELSE WhileLoop(r.es, body, n - 1)

(* ConstEval::eval_stmt: the value is an Option<Const> *)
eval_stmt(es, stmt) ==
    IF es.halt # "" THEN Val(None, es)
    ELSE IF stmt.k = "Block" THEN BlockLoop(es, stmt.ss, 1, None)
    ELSE IF stmt.k = "Expr" THEN
        LET r == eval(es, stmt.e) IN Val(Some(r.val), r.es)
    ELSE IF stmt.k = "Return" THEN
        IF IsSome(stmt.e) THEN
            LET r == eval(es, Unwrap(stmt.e))
            IN  IF is_none(r.val) THEN Val(None, r.es) ELSE Val(Some(ConstRet(r.val)), r.es)
        ELSE Val(Some(ConstRet(ConstVoid)), es)
    ELSE IF stmt.k = "Var" THEN
        IF IsNone(stmt.e) THEN Val(None, es)
        ELSE LET r == eval(es, Unwrap(stmt.e))
             IN  IF is_none(r.val) THEN Val(None, r.es)
                 ELSE Val(Some(ConstVoid), [r.es EXCEPT !.kv = MapPut(@, stmt.n, r.val)])
    ELSE IF stmt.k = "If" THEN
        LET r == eval(es, stmt.c)
        IN  IF is_none(r.val) THEN Val(None, r.es)
            ELSE IF r.val = ConstBool(TRUE) THEN eval_stmt(r.es, stmt.t)
            ELSE IF r.val = ConstBool(FALSE) /\ IsSome(stmt.e) THEN eval_stmt(r.es, Unwrap(stmt.e))
            ELSE Val(Some(ConstVoid), r.es)
    ELSE IF stmt.k = "While" THEN
        LET r == eval(es, stmt.c)
        IN  IF r.val = ConstBool(TRUE) THEN WhileLoop(r.es, stmt.b, MaxIter)
            ELSE Val(Some(ConstVoid), r.es)
    ELSE Val(None, Halt(es, "panic"))

NormalBlock(es, ss, fid, i) ==
    IF i > Len(ss) \/ es.halt # "" THEN es
    ELSE NormalBlock(eval_normal_stmt(es, ss[i], fid), ss, fid, i + 1)

(* `let val = self.eval(expr); if !val.is_none() { replace_expr_to(..) }` *)
FoldExpr(es, expr, fid) ==
    LET r == eval(es, expr)
    IN  IF r.es.halt # "" \/ is_none(r.val) THEN r.es
        ELSE replace_expr_to(r.es, fid, expr.id, r.val)

(* ConstEval::eval_normal_stmt *)
eval_normal_stmt(es, s, fid) ==
    IF es.halt # "" THEN es
    ELSE IF s.k = "Block" THEN NormalBlock(es, s.ss, fid, 1)
    ELSE IF s.k = "Expr" THEN FoldExpr(es, s.e, fid)
    ELSE IF s.k = "If" THEN
        LET e1 == eval_normal_stmt(FoldExpr(es, s.c, fid), s.t, fid)
        IN  IF IsSome(s.e) THEN eval_normal_stmt(e1, Unwrap(s.e), fid) ELSE e1
    ELSE IF s.k = "While" THEN eval_normal_stmt(FoldExpr(es, s.c, fid), s.b, fid)
    ELSE IF s.k = "Return" THEN
        IF IsSome(s.e) THEN FoldExpr(es, Unwrap(s.e), fid) ELSE es
    ELSE IF s.k = "Var" THEN
        IF IsNone(s.e) THEN es
        ELSE LET r == eval(es, Unwrap(s.e))
                 e1 == IF elems[fid].ret.k # "Void"
                          THEN replace_expr_to(r.es, fid, Unwrap(s.e).id, r.val) ELSE r.es
             IN  IF r.es.halt # "" \/ is_none(r.val) THEN r.es
                 ELSE IF e1.halt # "" THEN e1
                 ELSE [e1 EXCEPT !.kv = MapPut(@, s.n, r.val)]
    ELSE IF s.k = "Loop" THEN eval_normal_stmt(es, s.b, fid)
    ELSE es

(* ConstEval::run, first loop: the functions are collected by name *)
RECURSIVE CollectFuncs(_, _, _)
CollectFuncs(m, i, constant) ==
    IF i > Len(elems) THEN m
    ELSE LET func == elems[i]
             mine == func.kind = "Func"
                     /\ IF constant THEN func.constant
                        ELSE ~func.constant /\ ~func.internal /\ ~func.external
         IN  IF ~mine THEN CollectFuncs(m, i + 1, constant)
             ELSE IF func.name \in DOMAIN m
                THEN CollectFuncs([m EXCEPT ![func.name] = Append(@, func)], i + 1, constant)
                ELSE CollectFuncs(MapPut(m, func.name, <<func>>), i + 1, constant)

Declare ==
    /\ pc = "declare"
    /\ const_functions' = CollectFuncs(EmptyMap, 1, TRUE)
    /\ functions' = CollectFuncs(EmptyMap, 1, FALSE)
    /\ ei' = 1
    /\ pc' = "opt"
    /\ UNCHANGED <<elems, variables, typeVars, external_functions, fun_id, ir_funcs,
                   callVars, lowerVars, stmtVars, globals, run, prev, constants, links,
                   evalVars>>

(* ConstEval::run, second loop, one element: `self.id = i;                 *)
(* self.opt_func(func, i)`                                                 *)
opt_func ==
    LET func == elems[ei]
        es == eval_normal_stmt(EvalState(known_vars, replaced, ""), Unwrap(func.body), ei)
    IN  /\ pc = "opt"
        /\ ei <= Len(elems)
        /\ IF func.kind # "Func" \/ func.external \/ func.internal THEN
                /\ pc' = pc
                /\ UNCHANGED <<known_vars, replaced>>
           ELSE
                /\ known_vars' = es.kv
                /\ replaced' = es.rep
                /\ pc' = IF es.halt # "" THEN es.halt ELSE pc
        /\ ei' = ei + 1
        /\ UNCHANGED <<elems, variables, typeVars, funcVars, callVars, lowerVars, stmtVars,
                       globals, run, prev, constants, links, try_eval_normal>>

(* ConstEval::run returns *)
RunEnd ==
    /\ pc = "opt"
    /\ ei > Len(elems)
    /\ pc' = "folded"
    /\ UNCHANGED <<elems, variables, typeVars, funcVars, callVars, lowerVars, stmtVars,
                   bodyVars>>

NextEval ==
    \/ Declare
    \/ opt_func
    \/ RunEnd

(* ConstEval::new over the file `elems`; the fields of the code generator  *)
(* are not in use while the evaluator runs                                 *)
InitEval(files) ==
    /\ pc = "declare"
    /\ elems \in files
    /\ try_eval_normal \in BOOLEAN
    /\ known_vars = EmptyMap
    /\ replaced = <<>>
    /\ const_functions = EmptyMap
    /\ functions = EmptyMap
    /\ ei = 1
    /\ structures = EmptyMap
    /\ aliases = EmptyMap
    /\ ir_types = <<>>
    /\ external_functions = EmptyMap
    /\ fun_id = 0
    /\ ir_funcs = <<>>
    /\ variables = EmptyMap
    /\ callsite = None
    /\ outcome = None
    /\ lowered = <<>>
    /\ globals = EmptyMap
    /\ blocks = <<>>
    /\ cur_func = 0
    /\ cur_block = 0
    /\ block_id = 0
    /\ break_blocks = <<>>
    /\ continue_blocks = <<>>
    /\ terminated = <<>>
    /\ tasks = <<>>
    /\ src = <<>>
    /\ nodes = 0
    /\ run = 1
    /\ prev = <<>>
    /\ constants = EmptyMap
    /\ links = <<>>

----------------------------------------------------------------------------
(* SpecBinop: the evaluator over `func f() -> i32 { a op b; }` for every   *)
(* pair of integers a, b and the operators + - * /                         *)

ArithOps == {"+", "-", "*", "/"}
BinopExpr(op, a, b) ==
    EBinary(3, op, [EInt(1, a, "Long") EXCEPT !.b = "Hex"], EInt(2, b, "Int"), I32)
BinopFiles ==
    { <<FuncB("f", <<>>, I32, FALSE, Some(SBlock(<<SExpr(BinopExpr(op, a, b))>>)))>> :
        op \in ArithOps, a \in Ints, b \in Ints }

InitBinop == InitEval(BinopFiles)
SpecBinop == InitBinop /\ [][NextEval]_vars

(* the operation the file holds *)
TheBinop == elems[1].body[1].ss[1].e
(* the wrapped result of the operation on the integers *)
Wrapped(op, a, b) ==
    IF op = "+" THEN Wrap(a + b)
    ELSE IF op = "-" THEN Wrap(a - b)
    ELSE IF op = "*" THEN Wrap(a * b)
    ELSE Wrap(TruncDiv(a, b))

(* C23: folding + - * / of two known integers never aborts and always      *)
(* yields an integer constant with the suffix and the base of the left     *)
(* operand: the two's-complement wrapped result (for a non-zero divisor).  *)
C23_IntegerFoldingTotal ==
    (pc # "declare" /\ ei > 1) =>
        /\ pc # "panic"
        /\ Len(replaced) = 1
        /\ replaced[1].fid = 1 /\ replaced[1].id = TheBinop.id
        /\ replaced[1].lit.k = "Int"
        /\ replaced[1].lit.s = TheBinop.l.s /\ replaced[1].lit.b = TheBinop.l.b
        /\ (TheBinop.op = "/" /\ TheBinop.r.v = 0)
            \/ replaced[1].lit.v = Wrapped(TheBinop.op, TheBinop.l.v, TheBinop.r.v)

----------------------------------------------------------------------------
(* The run-time meaning of the statements and expressions the evaluator    *)
(* folds: the reference the folded literals are compared with.  env maps   *)
(* the variables to their values; trace lists, in order of execution, the  *)
(* node id and the value of every expression a statement holds directly.   *)

(* stop: "" (running), "ret" (a return was run, its value in ret), "fuel" *)
RunState(env) == [env |-> env, trace |-> <<>>, stop |-> "", ret |-> None]
IntV(v) == [k |-> "Int", v |-> v]
BoolV(v) == [k |-> "Bool", v |-> v]

RECURSIVE RunExpr(_, _)
RECURSIVE RunStmt(_, _)
RECURSIVE RunBlock(_, _, _)
RECURSIVE RunWhile(_, _, _)

(* the value of a binary operation at run time (no division by zero is run) *)
RunBinop(op, a, b) ==
    IF a.k = "Int" THEN
        IF op \in {"+", "-", "*", "/"} THEN IntV(Wrapped(op, a.v, b.v))
        ELSE BoolV(Unwrap(ImmBinop(op, a.v, b.v, "", "")).v)
    ELSE BoolV(BoolBinop(op, a.v, b.v).v)

(* the call of the first function named n with the arguments bound *)
RunCall(st, n, argv) ==
    LET func == (IF n \in DOMAIN const_functions THEN const_functions[n] ELSE functions[n])[1]
        env0 == [x \in { func.params[i].name : i \in 1..Len(func.params) } |->
                    argv[CHOOSE i \in 1..Len(func.params) : func.params[i].name = x]]
    IN  RunStmt(RunState(env0), Unwrap(func.body))

RunExpr(st, e) ==
    IF e.k = "Int" THEN [v |-> IntV(e.v), st |-> st]
    ELSE IF e.k = "Bool" THEN [v |-> BoolV(e.v), st |-> st]
    ELSE IF e.k = "Ident" THEN [v |-> st.env[e.n], st |-> st]
    ELSE IF e.k = "Binary" THEN
        LET r1 == RunExpr(st, e.l)
            r2 == RunExpr(r1.st, e.r)
        IN  [v |-> RunBinop(e.op, r1.v, r2.v), st |-> r2.st]
    ELSE IF e.k = "Assign" THEN
        LET r == RunExpr(st, e.from)
        IN  [v |-> r.v, st |-> [r.st EXCEPT !.env = MapPut(@, e.to.n, r.v)]]
    ELSE
        LET argv == [i \in 1..Len(e.args) |-> RunExpr(st, e.args[i]).v]
            r == RunCall(st, e.n, argv)
        IN  IF r.stop = "fuel" THEN [v |-> IntV(0), st |-> [st EXCEPT !.stop = "fuel"]]
            ELSE [v |-> Unwrap(r.ret), st |-> st]

(* the expression a statement holds, evaluated and entered in the trace *)
RunTop(st, e) ==
    LET r == RunExpr(st, e)
    IN  [v |-> r.v, st |-> [r.st EXCEPT !.trace = Append(@, [id |-> e.id, v |-> r.v])]]

RunBlock(st, ss, i) ==
    IF i > Len(ss) \/ st.stop # "" THEN st
    ELSE RunBlock(RunStmt(st, ss[i]), ss, i + 1)

(* a while loop with n iterations left to model; "fuel" when they are used up *)
RunWhile(st, s, n) ==
    IF st.stop # "" THEN st
    ELSE LET c == RunTop(st, s.c)
         IN  IF ~c.v.v THEN c.st
             ELSE IF n = 0 THEN [c.st EXCEPT !.stop = "fuel"]
             ELSE RunWhile(RunStmt(c.st, s.b), s, n - 1)

RunStmt(st, s) ==
    IF st.stop # "" THEN st
    ELSE IF s.k = "Block" THEN RunBlock(st, s.ss, 1)
    ELSE IF s.k = "Expr" THEN RunTop(st, s.e).st
    ELSE IF s.k = "Var" THEN
        IF IsNone(s.e) THEN st
        ELSE LET r == RunTop(st, Unwrap(s.e))
             IN  [r.st EXCEPT !.env = MapPut(@, s.n, r.v)]
    ELSE IF s.k = "If" THEN
        LET c == RunTop(st, s.c)
        IN  IF c.v.v THEN RunStmt(c.st, s.t)
            ELSE IF IsSome(s.e) THEN RunStmt(c.st, Unwrap(s.e))
            ELSE c.st
    ELSE IF s.k = "While" THEN RunWhile(st, s, MaxIter)
    ELSE IF s.k = "Return" THEN
        IF IsNone(s.e) THEN [st EXCEPT !.stop = "ret"]
        ELSE LET r == RunTop(st, Unwrap(s.e))
             IN  [r.st EXCEPT !.stop = "ret", !.ret = Some(r.v)]
    ELSE st

----------------------------------------------------------------------------
(* SpecCallFold: the evaluator over a constant function k(n) and           *)
(* `func main() -> i32 { return k(a); }`; the body of k is a sequence of   *)
(* statements of KStmts, u is a variable whose value is not known          *)

MaxBody == 3
KArgs == 0..2
N == EIdent(11, "n", I32)
X == EIdent(12, "x", I32)
U == EIdent(13, "u", I32)
UnknownInit == SVar("x", Some(U))
AbsentInit == SVar("x", None)
KnownInit == SVar("x", Some(EInt(14, 1, "Int")))
UnknownIf == SIf(EBinary(15, "<", U, N, Basic("bool")), SBlock(<<SReturn(Some(EInt(16, 5, "Int")))>>), None)
KnownIf == SIf(EBinary(17, "<", N, EInt(18, 1, "Int"), Basic("bool")), SBlock(<<SReturn(Some(EInt(19, 6, "Int")))>>), None)
UnknownReturn == SReturn(Some(U))
ParamReturn == SReturn(Some(EBinary(20, "+", N, EInt(21, 1, "Int"), I32)))
CountUp == SWhile(EBinary(22, "<", X, N, Basic("bool")),
                  SBlock(<<SExpr(EAssign(23, X, EBinary(24, "+", X, EInt(25, 1, "Int"), I32)))>>))
VarReturn == SReturn(Some(X))
KStmts == {UnknownInit, AbsentInit, KnownInit, UnknownIf, KnownIf, UnknownReturn,
           ParamReturn, CountUp, VarReturn}

(* x is declared before it is used *)
DeclaredBeforeUse(q) ==
    \A i \in 1..Len(q) :
        q[i] \in {CountUp, VarReturn} =>
            \E j \in 1..(i - 1) : q[j] \in {UnknownInit, AbsentInit, KnownInit}

KCall(a) == ECall(2, "k", <<EInt(1, a, "Int")>>, I32)
KFiles ==
    { <<FuncB("k", <<Param("n", I32)>>, I32, TRUE, Some(SBlock(ss))),
        FuncB("main", <<>>, I32, FALSE, Some(SBlock(<<SReturn(Some(KCall(a)))>>)))>> :
        ss \in { q \in SeqsUpTo(KStmts, MaxBody) : q # <<>> /\ DeclaredBeforeUse(q) },
        a \in KArgs }

InitCallFold == InitEval(KFiles)
SpecCallFold == InitCallFold /\ [][NextEval]_vars

(* the body of k, the argument of the call and the state in which the      *)
(* body is evaluated                                                       *)
KBody == elems[1].body[1].ss
KArg == elems[2].body[1].ss[1].e[1].args[1].v
KEntry == EvalState(MapPut(EmptyMap, "n", ConstImm(KArg, "Int", "Dec")), <<>>, "")
(* main was folded: the evaluator is past it, or stopped in it *)
MainFolded == pc \in {"opt", "folded"} /\ ei > 2
(* the literal the call was replaced by, if it was *)
CallLiterals == { replaced[i].lit : i \in { j \in 1..Len(replaced) : replaced[j].id = 2 } }

(* the values of the statements of the block that are evaluated, from      *)
(* statement i on: the evaluation of the block ends at the first return    *)
RECURSIVE Executed(_, _, _)
Executed(es, ss, i) ==
    IF i > Len(ss) \/ es.halt # "" THEN <<>>
    ELSE LET r == eval_stmt(es, ss[i])
         IN  <<r.val>> \o (IF IsSome(r.val) /\ Unwrap(r.val).k = "Ret" THEN <<>>
                           ELSE Executed(r.es, ss, i + 1))

(* C28: when an executed statement of the body of a constant function      *)
(* yields unknown, the call is unknown (Const::None): the call site is not *)
(* replaced by a literal, whatever the later statements of the block are.  *)
C28_UnknownStopsEvaluation ==
    (MainFolded /\ \E i \in 1..Len(Executed(KEntry, KBody, 1)) :
                        IsNone(Executed(KEntry, KBody, 1)[i])) =>
        CallLiterals = {}

(* the run of the body of k on the argument of the call, at run time *)
KRun == RunStmt(RunState(MapPut(EmptyMap, "n", IntV(KArg))), SBlock(KBody))
(* the evaluator is past main, or it stopped in main *)
MainEvaluated == pc \in {"opt", "folded", "loop", "panic"} /\ ei > 2
(* the body of k holds the while loop and nothing whose value is unknown *)
KnownLoopBody ==
    /\ \E i \in 1..Len(KBody) : KBody[i] = CountUp
    /\ \A i \in 1..Len(KBody) : KBody[i] \in {KnownInit, KnownIf, ParamReturn, CountUp, VarReturn}

(* C22: a call of a constant function whose body holds a while loop that   *)
(* exits after finitely many iterations at run time is evaluated to the    *)
(* end: the evaluator terminates and the call is replaced by the value the *)
(* function returns.                                                       *)
C22_WhileInConstFn ==
    (MainEvaluated /\ KnownLoopBody /\ KRun.stop = "ret") =>
        /\ pc \notin {"loop", "panic"}
        /\ \E l \in CallLiterals : l.k = Unwrap(KRun.ret).k /\ l.v = Unwrap(KRun.ret).v

----------------------------------------------------------------------------
(* SpecFold: the evaluator over the ordinary functions                     *)
(*   func f(c: bool) -> i32 { ... }  and  func g(x: i32) -> i32 { return x; } *)
(* the body of f is a sequence of statements of FStmts                     *)

CParam == EIdent(31, "c", Basic("bool"))
DeclX == SVar("x", Some(EInt(32, 1, "Int")))
AssignInIf == SIf(CParam, SBlock(<<SExpr(EAssign(33, X, EInt(34, 2, "Int")))>>), None)
AssignInWhile ==
    SWhile(EBinary(35, "<", X, EInt(36, 3, "Int"), Basic("bool")),
           SBlock(<<SExpr(EAssign(37, X, EBinary(38, "+", X, EInt(39, 1, "Int"), I32)))>>))
ReturnX == SReturn(Some(EIdent(40, "x", I32)))
ReturnSum == SReturn(Some(EBinary(41, "+", EInt(42, 2, "Int"), EInt(43, 3, "Int"), I32)))
FStmts == {DeclX, AssignInIf, AssignInWhile, ReturnX, ReturnSum}

(* x is declared before it is used *)
XDeclared(q) ==
    \A i \in 1..Len(q) :
        q[i] \in {AssignInIf, AssignInWhile, ReturnX} => \E j \in 1..(i - 1) : q[j] = DeclX

G_ == FuncB("g", <<Param("x", I32)>>, I32, FALSE, Some(SBlock(<<SReturn(Some(EIdent(44, "x", I32)))>>)))
FoldFiles ==
    { <<FuncB("f", <<Param("c", Basic("bool"))>>, I32, FALSE, Some(SBlock(ss)))>> \o tail :
        ss \in { q \in SeqsUpTo(FStmts, MaxBody) : q # <<>> /\ XDeclared(q) },
        tail \in {<<>>, <<G_>>} }

InitFold == InitEval(FoldFiles)
SpecFold == InitFold /\ [][NextEval]_vars

(* the values the parameters of a function may have at run time *)
ParamVals(p) == IF p.ty = Basic("bool") THEN {BoolV(TRUE), BoolV(FALSE)} ELSE {IntV(0), IntV(1)}
Envs(func) ==
    IF func.params = <<>> THEN {EmptyMap}
    ELSE { MapPut(EmptyMap, func.params[1].name, v) : v \in ParamVals(func.params[1]) }
(* the values the node id of function fid has in the runs of the function *)
RunValues(fid, id) ==
    UNION { { t[i].v : i \in { j \in 1..Len(t) : t[j].id = id } } :
            t \in { RunStmt(RunState(env), Unwrap(elems[fid].body)).trace : env \in Envs(elems[fid]) } }

(* C21: folding preserves the values: whenever the evaluator replaces an   *)
(* expression of a function body by a literal, the literal is the value    *)
(* the expression has in every run of the function that reaches it.        *)
C21_FoldingPreservesValues ==
    \A i \in 1..Len(replaced) :
        \A v \in RunValues(replaced[i].fid, replaced[i].id) :
            replaced[i].lit.k = v.k /\ replaced[i].lit.v = v.v

====
